---- MODULE Spec2Model ----
(***************************************************************************)
(* Cycle Time Recorder: the credential store, the session manager, the    *)
(* audit log and the record store, as coded in auth/authentication.py,    *)
(* utils/file_manager.py, app.py and the views.                           *)
(*                                                                         *)
(* One request (one Streamlit script run) is one action.  Time is counted *)
(* in minutes; the clock reads of one request return the same minute.     *)
(* Audit entries keep event type, user name and description; their        *)
(* timestamp text is left out.  A function that uses the result of a call   *)
(* several times takes it as a parameter of a second operator (f and        *)
(* f_with), so that every call is written once.                             *)
(***************************************************************************)
EXTENDS Integers, Sequences, FiniteSets, TLC

VARIABLES
    now,          \* datetime.now(), in minutes
    sessions,     \* st.session_state of each browser session
    usersFile,    \* data/users.json
    auditFile,    \* data/audit_log.json
    recordsFile,  \* the records document
    faults,       \* I/O faults of the environment in force
    last,         \* what the last request did and returned
    auditHist,    \* every audit entry handed to an append, in order
    work          \* the script run of each session that is between its load and its save

vars == <<now, sessions, usersFile, auditFile, recordsFile, faults, last, auditHist, work>>

-----------------------------------------------------------------------------
(* Bounds of the model *)

MaxTime == 31
MaxAudit == 1
MaxRecords == 1
NearCap == 2

(* Program constants *)

SESSION_TIMEOUT_MINUTES == 30
AuditCap == 1000
MinPasswordLen == 6
MaxPasswordLen == 128

NoneT == -1
NoneS == "None"

(* Inputs of the requests *)

TickSteps == {30, 31}
SessionIds == {"s1"}
Usernames == {"admin", "bob"}
Salts == {"a1"}
Roles == {"Member", "Admin"}

\* <<username, password>> typed into the login form
LoginInputs ==
    {<<"admin", "admin123">>, <<"admin", "Passw0rd">>, <<"bob", "Passw0rd">>,
     <<"bob", "admin123">>, <<"eve", "Passw0rd">>, <<"", "admin123">>, <<"admin", "">>}

\* <<username, full name, password, confirmation, role>> of the Add User form
AddUserInputs ==
    {<<"bob", "Bob B", "Passw0rd", "Passw0rd", "Member">>,
     <<"bob", "", "Passw0rd", "Passw0rd", "Admin">>,
     <<"admin", "", "Passw0rd", "Passw0rd", "Member">>,
     <<"", "", "Passw0rd", "Passw0rd", "Member">>,
     <<"bob", "", "Passw0rd", "admin123", "Member">>}

\* <<current, new, confirmation>> of the Change Password form
ChangePasswordInputs ==
    {<<"admin123", "Passw0rd", "Passw0rd">>, <<"Passw0rd", "Passw0rd", "Passw0rd">>,
     <<"admin123", "abc", "abc">>, <<"admin123", "1234567", "1234567">>,
     <<"admin123", "Passw0rd", "abc">>, <<"", "Passw0rd", "Passw0rd">>}

\* <<part number, cycle time>> of the Data Entry form
DataEntryInputs == {<<"PN-1", 125>>, <<"", 125>>, <<"PN-1", 0>>}

-----------------------------------------------------------------------------
(* Strings *)

\* str.lower() on the role strings that occur
Lower(r) ==
    CASE r = "Admin" -> "admin"
      [] r = "Member" -> "member"
      [] OTHER -> r

\* the characters of the passwords that occur
Chars(p) ==
    CASE p = "admin123" -> <<"a", "d", "m", "i", "n", "1", "2", "3">>
      [] p = "Passw0rd" -> <<"P", "a", "s", "s", "w", "0", "r", "d">>
      [] p = "Alice123" -> <<"A", "l", "i", "c", "e", "1", "2", "3">>
      [] p = "abc" -> <<"a", "b", "c">>
      [] p = "1234567" -> <<"1", "2", "3", "4", "5", "6", "7">>
      [] OTHER -> <<>>

Digits == {"0", "1", "2", "3", "4", "5", "6", "7", "8", "9"}

IsAlpha(c) == c \notin Digits

-----------------------------------------------------------------------------
(* Password hasher of auth/authentication.py *)

\* hashlib.sha256(text).hexdigest(): injective on the texts that occur
Sha256(password, salt) == <<password, salt>>

NoHash == [sep |-> "none", salt |-> "", digest |-> <<>>]

\* f"{salt}${hashed}"
hash_password(password, salt) ==
    [sep |-> "$", salt |-> salt, digest |-> Sha256(password, salt)]

verify_password(password, password_hash) ==
    IF password_hash.sep = "$"
    THEN Sha256(password, password_hash.salt) = password_hash.digest
    ELSE IF password_hash.sep = ":"
    THEN Sha256(password, password_hash.salt) = password_hash.digest
    ELSE IF password_hash.sep = ""
    THEN Sha256(password, "") = password_hash.digest
    ELSE FALSE

validate_password_strength(password) ==
    IF Len(Chars(password)) < MinPasswordLen THEN FALSE
    ELSE IF Len(Chars(password)) > MaxPasswordLen THEN FALSE
    ELSE \E i \in 1..Len(Chars(password)) : IsAlpha(Chars(password)[i])

-----------------------------------------------------------------------------
(* Files *)

EmptyUsers == [u \in {} |-> NoHash]

AbsentFile == [kind |-> "absent", data |-> <<>>]

\* load_json(file_path, default)
load_json(file, readFault, default) ==
    IF file.kind = "absent" THEN default
    ELSE IF readFault THEN default
    ELSE IF file.kind = "corrupt" THEN default
    ELSE file.data

\* save_json(file_path, data): the new file, or the old one and an exception
save_json(file, writeFault, kind, data) ==
    IF writeFault
    THEN [file |-> file, raised |-> TRUE]
    ELSE [file |-> [kind |-> kind, data |-> data], raised |-> FALSE]

-----------------------------------------------------------------------------
(* Audit log *)

Entry(event_type, username, description) ==
    [event_type |-> event_type, username |-> username, description |-> description]

LastN(s, n) == IF Len(s) > n THEN SubSeq(s, Len(s) - n + 1, Len(s)) ELSE s

\* the truncation of log_audit_event: audit_logs[-1000:]
KeepLast(appended) ==
    IF Len(appended) > AuditCap THEN LastN(appended, AuditCap) ELSE appended

\* log_audit_event of auth/authentication.py
log_audit_event(afile, flt, entry) ==
    save_json(afile, "audit_write" \in flt, "list",
              KeepLast(Append(IF afile.kind = "absent" THEN <<>>
                              ELSE load_json(afile, "audit_read" \in flt, <<>>),
                              entry)))

\* add_audit_log of utils/file_manager.py
add_audit_log(afile, flt, entry) ==
    IF "audit_write" \in flt
    THEN [file |-> afile, raised |-> FALSE]
    ELSE [file |-> [kind |-> "list",
                    data |-> Append(IF afile.kind = "list" /\ "audit_read" \notin flt
                                    THEN afile.data ELSE <<>>,
                                    entry)],
          raised |-> FALSE]

-----------------------------------------------------------------------------
(* Session state *)

\* init_session_state
AnonymousSession ==
    [logged_in |-> FALSE, username |-> NoneS, role |-> NoneS, full_name |-> NoneS,
     last_activity |-> NoneT, login_time |-> NoneT]

\* a logout() that forgets to clear the role
ClearedSession_KeepsRole(sess) ==
    [sess EXCEPT !.logged_in = FALSE, !.username = NoneS, !.full_name = NoneS,
                 !.last_activity = NoneT, !.login_time = NoneT]

\* what logout() assigns after its audit call
ClearedSession(sess) ==
    [sess EXCEPT !.logged_in = FALSE, !.username = NoneS, !.role = NoneS,
                 !.full_name = NoneS, !.last_activity = NoneT, !.login_time = NoneT]

LogoutEntry(username) == Entry("logout", username, <<"User logged out">>)

\* logout() once its audit call has returned w (or raised)
logout_with(sess, w) ==
    IF w.raised
    THEN [sess |-> sess, afile |-> w.file, raised |-> TRUE, logged |-> <<>>]
    ELSE [sess |-> ClearedSession(sess), afile |-> w.file, raised |-> FALSE,
          logged |-> IF sess.logged_in THEN <<LogoutEntry(sess.username)>> ELSE <<>>]

\* logout(): the audit entry is written first, the fields are cleared after it
logout(sess, afile, flt) ==
    logout_with(sess,
                IF sess.logged_in
                THEN log_audit_event(afile, flt, LogoutEntry(sess.username))
                ELSE [file |-> afile, raised |-> FALSE])

\* the test of check_session_timeout
Expired(sess, t) ==
    /\ sess.logged_in
    /\ sess.last_activity # NoneT
    /\ t - sess.last_activity > SESSION_TIMEOUT_MINUTES

\* check_session_timeout() once logout() has returned o (or raised)
timed_out_with(o) ==
    [timed_out |-> ~o.raised, sess |-> o.sess, afile |-> o.afile, raised |-> o.raised,
     logged |-> o.logged]

\* check_session_timeout()
check_session_timeout(sess, afile, flt, t) ==
    IF Expired(sess, t)
    THEN timed_out_with(logout(sess, afile, flt))
    ELSE [timed_out |-> FALSE, sess |-> sess, afile |-> afile, raised |-> FALSE,
          logged |-> <<>>]

\* update_activity()
update_activity(sess, t) ==
    IF sess.logged_in THEN [sess EXCEPT !.last_activity = t] ELSE sess

LoginEntry(username) == Entry("login", username, <<"User logged in successfully">>)

\* a login() that does not stamp login_time
LoggedInSession_NoLoginTime(sess, username, role, full_name, t) ==
    [sess EXCEPT !.logged_in = TRUE, !.username = username, !.role = role,
                 !.full_name = IF full_name = NoneS THEN username ELSE full_name,
                 !.last_activity = t]

\* the assignments of login()
LoggedInSession(sess, username, role, full_name, t) ==
    [sess EXCEPT !.logged_in = TRUE, !.username = username, !.role = role,
                 !.full_name = IF full_name = NoneS THEN username ELSE full_name,
                 !.login_time = t, !.last_activity = t]

\* login() once its audit call has returned w (or raised)
login_with(s1, username, w) ==
    [sess |-> s1, afile |-> w.file, raised |-> w.raised,
     logged |-> IF w.raised THEN <<>> ELSE <<LoginEntry(username)>>]

\* a login() that writes no audit entry
login_NoAudit(sess, afile, flt, username, role, full_name, t) ==
    login_with(LoggedInSession(sess, username, role, full_name, t), username,
               [file |-> afile, raised |-> FALSE])

\* login(username, role, full_name)
login(sess, afile, flt, username, role, full_name, t) ==
    login_with(LoggedInSession(sess, username, role, full_name, t), username,
               log_audit_event(afile, flt, LoginEntry(username)))

-----------------------------------------------------------------------------
(* Credential store of auth/authentication.py *)

UserRec(password_hash, password, role, full_name, created_by) ==
    [password_hash |-> password_hash, password |-> password, role |-> role,
     full_name |-> full_name, created_by |-> created_by]

\* the default_users literal of load_users
default_users(salt) ==
    [u \in {"admin"} |-> UserRec(hash_password("admin123", salt), NoHash, "Admin", NoneS, NoneS)]

\* load_users() reseeding: the default users are saved and returned
load_users_seeded(users, seed) ==
    [users |-> users, file |-> seed.file, raised |-> seed.raised]

\* load_users(): the users it returns, the file it leaves, and whether it raised
load_users(ufile, flt, salt) ==
    IF ufile.kind = "absent" \/ (ufile.kind = "nondict" /\ "users_read" \notin flt)
    THEN load_users_seeded(default_users(salt),
                           save_json(ufile, "users_write" \in flt, "dict", default_users(salt)))
    ELSE [users |-> load_json(ufile, "users_read" \in flt, EmptyUsers),
          file |-> ufile, raised |-> FALSE]

\* save_users(users)
save_users(ufile, flt, users) == save_json(ufile, "users_write" \in flt, "dict", users)

\* user_data.get('password_hash') or user_data.get('password')
password_field(user_data) ==
    IF user_data.password_hash # NoHash THEN user_data.password_hash ELSE user_data.password

AuthFailed == [success |-> FALSE, role |-> NoneS, full_name |-> NoneS]

\* an authenticate() that tells an unknown username from a wrong password
authenticate_with_Leaks(l, username, password) ==
    IF l.raised THEN [result |-> AuthFailed, file |-> l.file]
    ELSE IF username \notin DOMAIN l.users
    THEN [result |-> [success |-> FALSE, role |-> NoneS, full_name |-> "unknown user"],
          file |-> l.file]
    ELSE IF password_field(l.users[username]) = NoHash
    THEN [result |-> AuthFailed, file |-> l.file]
    ELSE IF verify_password(password, password_field(l.users[username]))
    THEN [result |-> [success |-> TRUE,
                      role |-> IF l.users[username].role = NoneS THEN "Member"
                               ELSE l.users[username].role,
                      full_name |-> IF l.users[username].full_name = NoneS THEN username
                                    ELSE l.users[username].full_name],
          file |-> l.file]
    ELSE [result |-> AuthFailed, file |-> l.file]

\* authenticate() once load_users() has returned l (or raised)
authenticate_with(l, username, password) ==
    IF l.raised THEN [result |-> AuthFailed, file |-> l.file]
    ELSE IF username \notin DOMAIN l.users THEN [result |-> AuthFailed, file |-> l.file]
    ELSE IF password_field(l.users[username]) = NoHash
    THEN [result |-> AuthFailed, file |-> l.file]
    ELSE IF verify_password(password, password_field(l.users[username]))
    THEN [result |-> [success |-> TRUE,
                      role |-> IF l.users[username].role = NoneS THEN "Member"
                               ELSE l.users[username].role,
                      full_name |-> IF l.users[username].full_name = NoneS THEN username
                                    ELSE l.users[username].full_name],
          file |-> l.file]
    ELSE [result |-> AuthFailed, file |-> l.file]

\* authenticate(username, password): its result and the users file it leaves
authenticate(ufile, flt, username, password, salt) ==
    authenticate_with(load_users(ufile, flt, salt), username, password)

\* what a user-management call hands back: its (ok, message), the files it leaves,
\* the audit entries it wrote, and whether an exception left it instead
OpResult(ok, msg, ufile, afile, raised, logged) ==
    [ok |-> ok, msg |-> msg, ufile |-> ufile, afile |-> afile, raised |-> raised,
     logged |-> logged]

\* users with one key set, as users[username] = {...} does
Put(users, username, rec) ==
    [u \in DOMAIN users \cup {username} |-> IF u = username THEN rec ELSE users[u]]

\* del users[username]
Del(users, username) == [u \in DOMAIN users \ {username} |-> users[u]]

\* the end of create_user, delete_user and change_password: log_audit_event
\* has returned w (or raised) after the save
logged_with(ufile, w, e, msg) ==
    IF w.raised THEN OpResult(FALSE, "exception", ufile, w.file, TRUE, <<>>)
    ELSE OpResult(TRUE, msg, ufile, w.file, FALSE, <<e>>)

\* the same from save_users on: it has returned sv (or raised)
saved_with(sv, afile, flt, e, msg) ==
    IF sv.raised THEN OpResult(FALSE, "exception", sv.file, afile, TRUE, <<>>)
    ELSE logged_with(sv.file, log_audit_event(afile, flt, e), e, msg)

\* create_user without its test of an existing username (not the program: C13
\* is checked against it)
create_user_with_NoDupCheck(l, afile, flt, username, password, role, full_name, created_by, salt) ==
    IF l.raised THEN OpResult(FALSE, "exception", l.file, afile, TRUE, <<>>)
    ELSE saved_with(save_users(l.file, flt,
                               Put(l.users, username,
                                   UserRec(hash_password(password, salt), NoHash, role,
                                           IF full_name = "" THEN NoneS ELSE full_name,
                                           created_by))),
                    afile, flt,
                    Entry("user_created", created_by,
                          <<"Created new user: ", username, " with role: ", role>>),
                    "User created successfully")

\* create_user() once load_users() has returned l (or raised)
create_user_with(l, afile, flt, username, password, role, full_name, created_by, salt) ==
    IF l.raised THEN OpResult(FALSE, "exception", l.file, afile, TRUE, <<>>)
    ELSE IF username \in DOMAIN l.users
    THEN OpResult(FALSE, "Username already exists", l.file, afile, FALSE, <<>>)
    ELSE saved_with(save_users(l.file, flt,
                               Put(l.users, username,
                                   UserRec(hash_password(password, salt), NoHash, role,
                                           IF full_name = "" THEN NoneS ELSE full_name,
                                           created_by))),
                    afile, flt,
                    Entry("user_created", created_by,
                          <<"Created new user: ", username, " with role: ", role>>),
                    "User created successfully")

\* create_user(username, password, role, full_name, created_by)
create_user(ufile, afile, flt, username, password, role, full_name, created_by, salt) ==
    create_user_with(load_users(ufile, flt, salt), afile, flt, username, password, role,
                     full_name, created_by, salt)

\* delete_user() once load_users() has returned l (or raised)
delete_user_with(l, afile, flt, username, deleted_by) ==
    IF l.raised THEN OpResult(FALSE, "exception", l.file, afile, TRUE, <<>>)
    ELSE IF username \notin DOMAIN l.users
    THEN OpResult(FALSE, "User not found", l.file, afile, FALSE, <<>>)
    ELSE saved_with(save_users(l.file, flt, Del(l.users, username)), afile, flt,
                    Entry("user_deleted", deleted_by, <<"Deleted user: ", username>>),
                    "User deleted successfully")

\* delete_user without its first check (not the program: C11 is checked against it)
delete_user_NoGuard(ufile, afile, flt, username, deleted_by, salt) ==
    delete_user_with(load_users(ufile, flt, salt), afile, flt, username, deleted_by)

\* delete_user(username, deleted_by)
delete_user(ufile, afile, flt, username, deleted_by, salt) ==
    IF username = "admin"
    THEN OpResult(FALSE, "Cannot delete admin user", ufile, afile, FALSE, <<>>)
    ELSE delete_user_with(load_users(ufile, flt, salt), afile, flt, username, deleted_by)

\* change_password without its test of the old password (not the program: C15
\* is checked against it)
change_password_with_NoVerify(l, afile, flt, username, old_password, new_password, salt) ==
    IF l.raised THEN OpResult(FALSE, "exception", l.file, afile, TRUE, <<>>)
    ELSE IF username \notin DOMAIN l.users
    THEN OpResult(FALSE, "User not found", l.file, afile, FALSE, <<>>)
    ELSE saved_with(save_users(l.file, flt,
                               [l.users EXCEPT ![username].password_hash =
                                                  hash_password(new_password, salt)]),
                    afile, flt,
                    Entry("password_change", username, <<"Password changed successfully">>),
                    "Password changed successfully")

\* change_password() once load_users() has returned l (or raised)
change_password_with(l, afile, flt, username, old_password, new_password, salt) ==
    IF l.raised THEN OpResult(FALSE, "exception", l.file, afile, TRUE, <<>>)
    ELSE IF username \notin DOMAIN l.users
    THEN OpResult(FALSE, "User not found", l.file, afile, FALSE, <<>>)
    ELSE IF ~verify_password(old_password, password_field(l.users[username]))
    THEN OpResult(FALSE, "Incorrect current password", l.file, afile, FALSE, <<>>)
    ELSE saved_with(save_users(l.file, flt,
                               [l.users EXCEPT ![username].password_hash =
                                                  hash_password(new_password, salt)]),
                    afile, flt,
                    Entry("password_change", username, <<"Password changed successfully">>),
                    "Password changed successfully")

\* change_password(username, old_password, new_password)
change_password(ufile, afile, flt, username, old_password, new_password, salt) ==
    change_password_with(load_users(ufile, flt, salt), afile, flt, username, old_password,
                         new_password, salt)

-----------------------------------------------------------------------------
(* Password hasher and stores of utils/security.py and utils/file_manager.py *)

\* utils.security.hash_password: f"{salt}:{hashed}"
security_hash_password(password, salt) ==
    [sep |-> ":", salt |-> salt, digest |-> Sha256(password, salt)]

\* config.settings.DEFAULT_ADMIN: (username, password) of the seeded administrator
DEFAULT_ADMIN == <<"admin", "admin123">>

\* the users_data literal of ensure_files
ensure_users(salt) ==
    [u \in {DEFAULT_ADMIN[1], "alice"} |->
        IF u = DEFAULT_ADMIN[1]
        THEN UserRec(security_hash_password(DEFAULT_ADMIN[2], salt), NoHash, "Admin", NoneS, NoneS)
        ELSE UserRec(security_hash_password("Alice123", salt), NoHash, "Member", NoneS, NoneS)]

\* one document of ensure_files: written when it is missing
ensure_file(file, writeFault, kind, data) ==
    IF file.kind = "absent" THEN save_json(file, writeFault, kind, data)
    ELSE [file |-> file, raised |-> FALSE]

\* ensure_files() once its three writes have returned u, r and a (or raised)
ensure_files_with(u, r, a, ufile, rfile, afile) ==
    IF u.raised THEN [ufile |-> ufile, rfile |-> rfile, afile |-> afile, raised |-> TRUE]
    ELSE IF r.raised
    THEN [ufile |-> u.file, rfile |-> rfile, afile |-> afile, raised |-> TRUE]
    ELSE [ufile |-> u.file, rfile |-> r.file, afile |-> a.file, raised |-> a.raised]

\* ensure_files(): each missing document is created; a refused write raises
ensure_files(ufile, rfile, afile, flt, salt) ==
    ensure_files_with(ensure_file(ufile, "users_write" \in flt, "dict", ensure_users(salt)),
                      ensure_file(rfile, "records_write" \in flt, "list", <<>>),
                      ensure_file(afile, "audit_write" \in flt, "list", <<>>),
                      ufile, rfile, afile)

\* file_manager.load_users() after its ensure_files(): {} when the read fails
fm_load_users(ufile, flt) ==
    IF ufile.kind \in {"dict", "nondict"} /\ "users_read" \notin flt
    THEN ufile.data ELSE EmptyUsers

\* file_manager.save_users(users): True, or False when the write fails
fm_save_users(ufile, flt, users) ==
    IF "users_write" \in flt
    THEN [file |-> ufile, ok |-> FALSE]
    ELSE [file |-> [kind |-> "dict", data |-> users], ok |-> TRUE]

-----------------------------------------------------------------------------
(* Cycle times and records of models/ and utils/file_manager.py.  A time is  *)
(* held in three-hundredths of a unit, so that a tenth is 30, a hundredth is *)
(* 3 and the mean of one, two or three readings typed with one decimal is a  *)
(* whole number.                                                             *)

Tenth == 30
Hundredth == 3

\* a CycleTime object, or None
NoCycleTime == [some |-> FALSE, pre |-> 0, machine |-> 0, post |-> 0]

CycleTime(pre, machine, post) ==
    [some |-> TRUE, pre |-> pre, machine |-> machine, post |-> post]

\* a text is what a user typed, or what CycleTime.__str__ printed
Typed(s) == [form |-> "typed", s |-> s, v |-> NoCycleTime]

\* f"{x:.1f}": x to the nearest tenth
Format1f(x) == ((2 * x + Tenth) \div (2 * Tenth)) * Tenth

\* CycleTime.__str__: f"{pre:.1f}({machine:.1f}){post:.1f}"
CycleTime_str(c) ==
    [form |-> "printed", s |-> "",
     v |-> CycleTime(Format1f(c.pre), Format1f(c.machine), Format1f(c.post))]

\* str(c) if c else ""
TextOf(c) == IF c.some THEN CycleTime_str(c) ELSE Typed("")

\* CycleTime.parse(s): the texts that occur; None for "", "bad" and "5(12"
CycleTime_parse(t) ==
    IF t.form = "printed" THEN t.v
    ELSE CASE t.s = "5(12)4" -> CycleTime(5 * 10 * Tenth, 12 * 10 * Tenth, 4 * 10 * Tenth)
           [] t.s = " 1 ( 2 ) 3 " -> CycleTime(1 * 10 * Tenth, 2 * 10 * Tenth, 3 * 10 * Tenth)
           [] t.s = "0.5(1)0" -> CycleTime(5 * Tenth, 1 * 10 * Tenth, 0)
           [] t.s = "0(0)0" -> CycleTime(0, 0, 0)
           [] t.s = "0.14(1)0" -> CycleTime(14 * Hundredth, 1 * 10 * Tenth, 0)
           [] t.s = "0.24(1)0" -> CycleTime(24 * Hundredth, 1 * 10 * Tenth, 0)
           [] OTHER -> NoCycleTime

\* validate_cycle_input(val): an empty text is valid, any other text is valid
\* when it parses
validate_cycle_input(val) == val = Typed("") \/ CycleTime_parse(val).some

\* the three readings whether present or not, None counted as zeros (not the
\* program: C24 is checked against it)
Cycles_All(rec) == <<rec.r1, rec.r2, rec.r3>>

\* the readings of a record that are not None
Cycles(rec) == SelectSeq(<<rec.r1, rec.r2, rec.r3>>, LAMBDA c : c.some)

\* CycleRecord.average once cycles is known
average_of(cycles) ==
    IF cycles = <<>> THEN NoCycleTime
    ELSE IF Len(cycles) = 1 THEN CycleTime(cycles[1].pre, cycles[1].machine, cycles[1].post)
    ELSE IF Len(cycles) = 2
    THEN CycleTime((cycles[1].pre + cycles[2].pre) \div 2,
                   (cycles[1].machine + cycles[2].machine) \div 2,
                   (cycles[1].post + cycles[2].post) \div 2)
    ELSE CycleTime((cycles[1].pre + cycles[2].pre + cycles[3].pre) \div 3,
                   (cycles[1].machine + cycles[2].machine + cycles[3].machine) \div 3,
                   (cycles[1].post + cycles[2].post + cycles[3].post) \div 3)

\* CycleRecord.average
CycleRecord_average(rec) == average_of(Cycles(rec))

\* CycleRecord(...) with modified_by and modified_at set after construction
CycleRecord(date, model, station, r1, r2, r3, created_by, created_at, output, modified_by, modified_at) ==
    [date |-> date, model |-> model, station |-> station, r1 |-> r1, r2 |-> r2, r3 |-> r3,
     output |-> output, created_by |-> created_by, created_at |-> created_at,
     modified_by |-> modified_by, modified_at |-> modified_at]

\* CycleRecord.to_dict
CycleRecord_to_dict(rec) ==
    [date |-> rec.date, model |-> rec.model, station |-> rec.station,
     r1 |-> TextOf(rec.r1), r2 |-> TextOf(rec.r2), r3 |-> TextOf(rec.r3),
     average |-> TextOf(CycleRecord_average(rec)), output |-> rec.output,
     created_by |-> rec.created_by, created_at |-> rec.created_at,
     modified_by |-> rec.modified_by, modified_at |-> rec.modified_at]

\* item.get(key, default)
Get(item, key, default) == IF key \in DOMAIN item THEN item[key] ELSE default

\* one item of the document made a CycleRecord
RecordOf(item) ==
    CycleRecord(item.date, item.model, item.station,
                CycleTime_parse(Get(item, "r1", Typed(""))),
                CycleTime_parse(Get(item, "r2", Typed(""))),
                CycleTime_parse(Get(item, "r3", Typed(""))),
                item.created_by, item.created_at, Get(item, "output", ""),
                Get(item, "modified_by", item.created_by),
                Get(item, "modified_at", item.created_at))

\* the keys load_records reads with item[...]: a missing one is a KeyError
RequiredKeys == {"date", "model", "station", "created_by", "created_at"}

\* a load that gives up on the whole document when a reading does not parse
\* (not the program: C21 is checked against it)
fm_load_records_Strict(rfile, flt) ==
    IF rfile.kind # "list" \/ "records_read" \in flt THEN <<>>
    ELSE IF \E i \in 1..Len(rfile.data) : ~(RequiredKeys \subseteq DOMAIN rfile.data[i]) THEN <<>>
    ELSE IF \E i \in 1..Len(rfile.data), key \in {"r1", "r2", "r3"} :
               /\ key \in DOMAIN rfile.data[i]
               /\ rfile.data[i][key] # Typed("")
               /\ ~CycleTime_parse(rfile.data[i][key]).some
    THEN <<>>
    ELSE [i \in 1..Len(rfile.data) |-> RecordOf(rfile.data[i])]

\* file_manager.load_records() after its ensure_files(): [] on any exception
fm_load_records(rfile, flt) ==
    IF rfile.kind # "list" \/ "records_read" \in flt THEN <<>>
    ELSE IF \E i \in 1..Len(rfile.data) : ~(RequiredKeys \subseteq DOMAIN rfile.data[i]) THEN <<>>
    ELSE [i \in 1..Len(rfile.data) |-> RecordOf(rfile.data[i])]

\* file_manager.save_records(records): True, or False when the write fails
fm_save_records(rfile, flt, records) ==
    IF "records_write" \in flt
    THEN [file |-> rfile, ok |-> FALSE]
    ELSE [file |-> [kind |-> "list",
                    data |-> [i \in 1..Len(records) |-> CycleRecord_to_dict(records[i])]],
          ok |-> TRUE]

-----------------------------------------------------------------------------
(* Requests.  A response is the state a script run leaves and what it showed. *)

Shown(op, outcome, logged, store_unreadable) ==
    [op |-> op, outcome |-> outcome, logged |-> logged, store_unreadable |-> store_unreadable]

Response(sess, ufile, afile, rfile, shown) ==
    [sess |-> sess, ufile |-> ufile, afile |-> afile, rfile |-> rfile, shown |-> shown]

NoForm == [submit |-> FALSE, username |-> "", password |-> ""]

\* whether the users document exists and load_json() fails to read it
StoreUnreadable(ufile, flt) == ufile.kind # "absent" /\ "users_read" \in flt

\* what show_login_ui() leaves: ret is its return value
LoginUi(ret, sess, ufile, afile, outcome, logged, store_unreadable) ==
    [ret |-> ret, sess |-> sess, ufile |-> ufile, afile |-> afile, outcome |-> outcome,
     logged |-> logged, store_unreadable |-> store_unreadable]

FailedEntry(username) == Entry("failed_login", username, <<"Failed login attempt">>)

\* show_login_ui(), authenticate() succeeded and login() has returned li (or raised)
welcome_with(li, ufile, unreadable) ==
    LoginUi(FALSE, li.sess, ufile, li.afile,
            IF li.raised THEN "exception" ELSE "welcome", li.logged, unreadable)

\* show_login_ui(), authenticate() failed and log_audit_event has returned fl (or raised)
invalid_with(sess, ufile, fl, username, unreadable) ==
    LoginUi(FALSE, sess, ufile, fl.file,
            IF fl.raised THEN "exception" ELSE "invalid",
            IF fl.raised THEN <<>> ELSE <<FailedEntry(username)>>, unreadable)

\* show_login_ui(), the submitted form once authenticate() has returned a
submitted_with(sess, afile, flt, t, username, a, unreadable) ==
    IF a.result.success
    THEN welcome_with(login(sess, afile, flt, username, a.result.role, a.result.full_name, t),
                      a.file, unreadable)
    ELSE invalid_with(sess, a.file, log_audit_event(afile, flt, FailedEntry(username)),
                      username, unreadable)

\* show_login_ui() once check_session_timeout() has returned c (or raised)
show_login_ui_with(c, ufile, flt, t, form, salt) ==
    IF c.raised THEN LoginUi(FALSE, c.sess, ufile, c.afile, "exception", c.logged, FALSE)
    ELSE IF c.timed_out THEN LoginUi(FALSE, c.sess, ufile, c.afile, "expired", c.logged, FALSE)
    ELSE IF c.sess.logged_in
    THEN LoginUi(TRUE, update_activity(c.sess, t), ufile, c.afile, "in", <<>>, FALSE)
    ELSE IF ~form.submit THEN LoginUi(FALSE, c.sess, ufile, c.afile, "form", <<>>, FALSE)
    ELSE IF form.username = "" \/ form.password = ""
    THEN LoginUi(FALSE, c.sess, ufile, c.afile, "blank", <<>>, FALSE)
    ELSE submitted_with(c.sess, c.afile, flt, t, form.username,
                        authenticate(ufile, flt, form.username, form.password, salt),
                        StoreUnreadable(ufile, flt))

\* a show_login_ui() that touches the session before it tests the timeout
show_login_ui_TouchFirst(sess, ufile, afile, flt, t, form, salt) ==
    show_login_ui_with(check_session_timeout(update_activity(sess, t), afile, flt, t),
                       ufile, flt, t, form, salt)

\* show_login_ui()
show_login_ui(sess, ufile, afile, flt, t, form, salt) ==
    show_login_ui_with(check_session_timeout(sess, afile, flt, t), ufile, flt, t, form, salt)

\* main() up to the page: the response when no page is reached
NoPage(g, rfile, op) ==
    Response(g.sess, g.ufile, g.afile, rfile,
             Shown(op, g.outcome, g.logged, g.store_unreadable))

\* the login form submitted
SubmitLoginRun(sess, ufile, afile, rfile, flt, t, username, password, salt) ==
    NoPage(show_login_ui(sess, ufile, afile, flt, t,
                         [submit |-> TRUE, username |-> username, password |-> password],
                         salt),
           rfile, "login")

\* the Logout button once logout() has returned o (or raised)
LoggedOut(o, ufile, rfile) ==
    Response(o.sess, ufile, o.afile, rfile,
             Shown("logout", IF o.raised THEN "exception" ELSE "logged_out", o.logged, FALSE))

\* show_user_info() after show_login_ui() has returned g
ClickLogoutPage(g, rfile, flt) ==
    IF ~g.ret THEN NoPage(g, rfile, "logout")
    ELSE LoggedOut(logout(g.sess, g.afile, flt), g.ufile, rfile)

\* show_user_info(): the Logout button
ClickLogoutRun(sess, ufile, afile, rfile, flt, t, salt) ==
    ClickLogoutPage(show_login_ui(sess, ufile, afile, flt, t, NoForm, salt), rfile, flt)

RequireAuthResult(sess, afile, outcome, logged) ==
    [sess |-> sess, afile |-> afile, outcome |-> outcome, logged |-> logged]

\* a role check that lets every authenticated session through
require_role_Unchecked(s1, afile, role_required) ==
    RequireAuthResult(s1, afile, "granted", <<>>)

\* the role test of require_auth on the session s1 it has just touched
require_role(s1, afile, role_required) ==
    IF role_required # NoneS /\ Lower(s1.role) # Lower(role_required)
    THEN RequireAuthResult(s1, afile, "denied", <<>>)
    ELSE RequireAuthResult(s1, afile, "granted", <<>>)

\* require_auth once check_session_timeout() has returned c (or raised)
require_auth_with(c, t, role_required) ==
    IF c.raised THEN RequireAuthResult(c.sess, c.afile, "exception", c.logged)
    ELSE IF c.timed_out THEN RequireAuthResult(c.sess, c.afile, "expired", c.logged)
    ELSE IF ~c.sess.logged_in THEN RequireAuthResult(c.sess, c.afile, "please_login", <<>>)
    ELSE require_role(update_activity(c.sess, t), c.afile, role_required)

\* require_auth(role_required): the wrapper around a page function
require_auth(sess, afile, flt, t, role_required) ==
    require_auth_with(check_session_timeout(sess, afile, flt, t), t, role_required)

RequireAuthResponse(q, ufile, rfile) ==
    Response(q.sess, ufile, q.afile, rfile, Shown("require_auth", q.outcome, q.logged, FALSE))

RequireAuthRun(sess, ufile, afile, rfile, flt, t, role_required) ==
    RequireAuthResponse(require_auth(sess, afile, flt, t, role_required), ufile, rfile)

-----------------------------------------------------------------------------
(* Pages.  admin.py names add_user, remove_user and save_users; they are the      *)
(* create_user and delete_user of auth/authentication.py and the save_users of   *)
(* utils/file_manager.py.  Each page takes the result g of show_login_ui().      *)

\* the Admin Panel branch of main(): the role, lower-cased, must be "admin"
AdminPanelGate(sess) ==
    (IF sess.role # NoneS THEN Lower(sess.role) ELSE "") = "admin"

\* the first test of the Settings & Maintenance page
MaintenanceGate(sess) == ~(sess.role # "Admin")

\* the gate of require_auth("Admin") on a logged-in session
RequireAuthGate(sess, role_required) ==
    ~(role_required # NoneS /\ Lower(sess.role) # Lower(role_required))

\* a page that shows a message and changes no document
Say(g, rfile, op, outcome) ==
    Response(g.sess, g.ufile, g.afile, rfile, Shown(op, outcome, <<>>, FALSE))

Raised(g, ufile, afile, rfile, op) ==
    Response(g.sess, ufile, afile, rfile, Shown(op, "exception", <<>>, FALSE))

\* a page drawn to its end, once ensure_files() has returned f (or raised)
Rendered_with(g, f, op, outcome, logged) ==
    IF f.raised THEN Raised(g, f.ufile, f.afile, f.rfile, op)
    ELSE Response(g.sess, f.ufile, f.afile, f.rfile, Shown(op, outcome, logged, FALSE))

\* a page drawn to its end: load_users()/load_records() run ensure_files()
Rendered(g, ufile, afile, rfile, flt, salt, op, outcome, logged) ==
    Rendered_with(g, ensure_files(ufile, rfile, afile, flt, salt), op, outcome, logged)

\* the Add User form once add_user() has returned c (or raised)
AdminAddUserDone(g, c, rfile, flt, salt) ==
    IF c.raised THEN Raised(g, c.ufile, c.afile, rfile, "add_user")
    ELSE Rendered(g, c.ufile, c.afile, rfile, flt, salt, "add_user",
                  IF c.ok THEN "ok" ELSE c.msg, c.logged)

AdminAddUserPage(g, rfile, flt, new_user, new_full_name, new_pass, new_pass_conf, new_role, salt) ==
    IF ~g.ret THEN NoPage(g, rfile, "add_user")
    ELSE IF ~AdminPanelGate(g.sess) THEN Say(g, rfile, "add_user", "denied")
    ELSE IF new_user = "" \/ new_pass = ""
    THEN Rendered(g, g.ufile, g.afile, rfile, flt, salt, "add_user", "blank", <<>>)
    ELSE IF new_pass # new_pass_conf
    THEN Rendered(g, g.ufile, g.afile, rfile, flt, salt, "add_user", "mismatch", <<>>)
    ELSE AdminAddUserDone(g, create_user(g.ufile, g.afile, flt, new_user, new_pass, new_role,
                                         new_full_name, "admin", salt),
                          rfile, flt, salt)

\* Admin Panel, the Add User form
AdminAddUserRun(sess, ufile, afile, rfile, flt, t, new_user, new_full_name, new_pass, new_pass_conf, new_role, salt) ==
    AdminAddUserPage(show_login_ui(sess, ufile, afile, flt, t, NoForm, salt), rfile, flt,
                     new_user, new_full_name, new_pass, new_pass_conf, new_role, salt)

\* the users a Remove User click can name
RemovableUsers(ufile, flt) == DOMAIN fm_load_users(ufile, flt) \ {DEFAULT_ADMIN[1]}

\* the Remove User button once remove_user() has returned d (or raised)
AdminRemoveUserDone(g, d, rfile) ==
    IF d.raised THEN Raised(g, d.ufile, d.afile, rfile, "remove_user")
    ELSE Response(g.sess, d.ufile, d.afile, rfile,
                  Shown("remove_user", IF d.ok THEN "ok" ELSE d.msg, d.logged, FALSE))

\* the Remove User tab once load_users() has run ensure_files(), which returned f
AdminRemoveUserListed(g, f, flt, to_remove, salt) ==
    IF f.raised THEN Raised(g, f.ufile, f.afile, f.rfile, "remove_user")
    ELSE IF to_remove \notin RemovableUsers(f.ufile, flt)
    THEN Response(g.sess, f.ufile, f.afile, f.rfile,
                  Shown("remove_user", "not_listed", <<>>, FALSE))
    ELSE IF g.sess.username = to_remove
    THEN Response(g.sess, f.ufile, f.afile, f.rfile,
                  Shown("remove_user", "own_account", <<>>, FALSE))
    ELSE AdminRemoveUserDone(g, delete_user(f.ufile, f.afile, flt, to_remove, "admin", salt),
                             f.rfile)

AdminRemoveUserPage(g, rfile, flt, to_remove, salt) ==
    IF ~g.ret THEN NoPage(g, rfile, "remove_user")
    ELSE IF ~AdminPanelGate(g.sess) THEN Say(g, rfile, "remove_user", "denied")
    ELSE AdminRemoveUserListed(g, ensure_files(g.ufile, rfile, g.afile, flt, salt), flt,
                               to_remove, salt)

\* Admin Panel, the Remove User button
AdminRemoveUserRun(sess, ufile, afile, rfile, flt, t, to_remove, salt) ==
    AdminRemoveUserPage(show_login_ui(sess, ufile, afile, flt, t, NoForm, salt), rfile, flt,
                        to_remove, salt)

\* the Change Role button once add_audit_log() has returned w
AdminChangeRoleLogged(g, sv, w, rfile, flt, e) ==
    Response(g.sess, sv.file, w.file, rfile,
             Shown("set_role", "ok", IF "audit_write" \in flt THEN <<>> ELSE <<e>>, FALSE))

\* the Change Role button once save_users() has returned sv
AdminChangeRoleSaved(g, f, sv, flt, e) ==
    IF ~sv.ok
    THEN Response(g.sess, sv.file, f.afile, f.rfile,
                  Shown("set_role", "save_failed", <<>>, FALSE))
    ELSE AdminChangeRoleLogged(g, sv, add_audit_log(f.afile, flt, e), f.rfile, flt, e)

\* the Change Role tab with the users that load_users() returned.  The
\* confirmation button of a change of one's own role to Member is drawn inside
\* the handler of the first button, and a script run never has both clicked:
\* that branch only shows its warning.
AdminChangeRoleListed(g, f, users, flt, selected_user, new_role) ==
    IF selected_user \notin DOMAIN users
    THEN Response(g.sess, f.ufile, f.afile, f.rfile,
                  Shown("set_role", "not_listed", <<>>, FALSE))
    ELSE IF selected_user = DEFAULT_ADMIN[1] /\ new_role = "Member"
    THEN Response(g.sess, f.ufile, f.afile, f.rfile,
                  Shown("set_role", "default_admin", <<>>, FALSE))
    ELSE IF selected_user = g.sess.username /\ new_role = "Member"
    THEN Response(g.sess, f.ufile, f.afile, f.rfile,
                  Shown("set_role", "confirm_own", <<>>, FALSE))
    ELSE AdminChangeRoleSaved(g, f,
                              fm_save_users(f.ufile, flt,
                                            [users EXCEPT ![selected_user].role = new_role]),
                              flt,
                              Entry("CHANGE_ROLE", g.sess.username,
                                    <<"Changed ", selected_user, " role from ",
                                      users[selected_user].role, " to ", new_role>>))

\* the Change Role tab once load_users() has run ensure_files(), which returned f
AdminChangeRoleEnsured(g, f, flt, selected_user, new_role) ==
    IF f.raised THEN Raised(g, f.ufile, f.afile, f.rfile, "set_role")
    ELSE AdminChangeRoleListed(g, f, fm_load_users(f.ufile, flt), flt, selected_user, new_role)

AdminChangeRolePage(g, rfile, flt, selected_user, new_role, salt) ==
    IF ~g.ret THEN NoPage(g, rfile, "set_role")
    ELSE IF ~AdminPanelGate(g.sess) THEN Say(g, rfile, "set_role", "denied")
    ELSE AdminChangeRoleEnsured(g, ensure_files(g.ufile, rfile, g.afile, flt, salt), flt,
                                selected_user, new_role)

\* Admin Panel, the Change Role button
AdminChangeRoleRun(sess, ufile, afile, rfile, flt, t, selected_user, new_role, salt) ==
    AdminChangeRolePage(show_login_ui(sess, ufile, afile, flt, t, NoForm, salt), rfile, flt,
                        selected_user, new_role, salt)

\* the Change Password form once change_password() has returned c (or raised)
SettingsChangePasswordDone(g, c, rfile) ==
    IF c.raised THEN Raised(g, c.ufile, c.afile, rfile, "change_password")
    ELSE Response(g.sess, c.ufile, c.afile, rfile,
                  Shown("change_password", IF c.ok THEN "ok" ELSE c.msg, c.logged, FALSE))

SettingsChangePasswordPage(g, rfile, flt, current_password, new_password, confirm_password, salt) ==
    IF ~g.ret THEN NoPage(g, rfile, "change_password")
    ELSE IF current_password = "" \/ new_password = "" \/ confirm_password = ""
    THEN Say(g, rfile, "change_password", "blank")
    ELSE IF new_password # confirm_password THEN Say(g, rfile, "change_password", "mismatch")
    ELSE IF ~validate_password_strength(new_password)
    THEN Say(g, rfile, "change_password", "weak")
    ELSE SettingsChangePasswordDone(g, change_password(g.ufile, g.afile, flt, g.sess.username,
                                                       current_password, new_password, salt),
                                    rfile)

\* Settings, the Change Password form of views/settings.py
SettingsChangePasswordRun(sess, ufile, afile, rfile, flt, t, current_password, new_password, confirm_password, salt) ==
    SettingsChangePasswordPage(show_login_ui(sess, ufile, afile, flt, t, NoForm, salt), rfile,
                               flt, current_password, new_password, confirm_password, salt)

MaintenancePagePage(g, rfile, flt, salt) ==
    IF ~g.ret THEN NoPage(g, rfile, "maintenance")
    ELSE IF ~MaintenanceGate(g.sess) THEN Say(g, rfile, "maintenance", "denied")
    ELSE Rendered(g, g.ufile, g.afile, rfile, flt, salt, "maintenance", "granted", <<>>)

\* Settings & Maintenance: its gate, then load_records()
MaintenancePageRun(sess, ufile, afile, rfile, flt, t, salt) ==
    MaintenancePagePage(show_login_ui(sess, ufile, afile, flt, t, NoForm, salt), rfile, flt, salt)

\* utils.security.verify_password: salt, hashed = hashed_password.split(':');
\* any other form of the stored text is a ValueError, caught: False
security_verify_password(password, hashed_password) ==
    IF hashed_password.sep = ":"
    THEN Sha256(password, hashed_password.salt) = hashed_password.digest
    ELSE FALSE

\* utils.security.validate_password_strength
security_validate_password_strength(password) ==
    IF Len(Chars(password)) < MinPasswordLen THEN FALSE
    ELSE IF Len(Chars(password)) > MaxPasswordLen THEN FALSE
    ELSE \E i \in 1..Len(Chars(password)) : IsAlpha(Chars(password)[i])

\* the Change Password form of config/settings.py once add_audit_log() has returned w
MaintenanceChangePasswordLogged(g, sv, w, rfile, flt, e) ==
    Response(g.sess, sv.file, w.file, rfile,
             Shown("maintenance_password", "ok",
                   IF "audit_write" \in flt THEN <<>> ELSE <<e>>, FALSE))

\* the same form once save_users() has returned sv
MaintenanceChangePasswordSaved(g, f, sv, flt, e) ==
    IF ~sv.ok
    THEN Response(g.sess, sv.file, f.afile, f.rfile,
                  Shown("maintenance_password", "save_failed", <<>>, FALSE))
    ELSE MaintenanceChangePasswordLogged(g, sv, add_audit_log(f.afile, flt, e), f.rfile, flt, e)

\* the same form with the users that load_users() returned: users[username]
\* and ['password_hash'] raise KeyError when the key is missing
MaintenanceChangePasswordLoaded(g, f, users, flt, old_pwd, new_pwd, confirm_pwd, salt) ==
    IF g.sess.username \notin DOMAIN users
    THEN Raised(g, f.ufile, f.afile, f.rfile, "maintenance_password")
    ELSE IF users[g.sess.username].password_hash = NoHash
    THEN Raised(g, f.ufile, f.afile, f.rfile, "maintenance_password")
    ELSE IF ~security_verify_password(old_pwd, users[g.sess.username].password_hash)
    THEN Response(g.sess, f.ufile, f.afile, f.rfile,
                  Shown("maintenance_password", "Incorrect current password", <<>>, FALSE))
    ELSE IF new_pwd # confirm_pwd
    THEN Response(g.sess, f.ufile, f.afile, f.rfile,
                  Shown("maintenance_password", "mismatch", <<>>, FALSE))
    ELSE IF ~security_validate_password_strength(new_pwd)
    THEN Response(g.sess, f.ufile, f.afile, f.rfile,
                  Shown("maintenance_password", "weak", <<>>, FALSE))
    ELSE MaintenanceChangePasswordSaved(g, f,
             fm_save_users(f.ufile, flt,
                           [users EXCEPT ![g.sess.username].password_hash =
                                             security_hash_password(new_pwd, salt)]),
             flt, Entry("CHANGE_PASSWORD", g.sess.username, <<>>))

\* the same form once load_users() has run ensure_files(), which returned f
MaintenanceChangePasswordEnsured(g, f, flt, old_pwd, new_pwd, confirm_pwd, salt) ==
    IF f.raised THEN Raised(g, f.ufile, f.afile, f.rfile, "maintenance_password")
    ELSE MaintenanceChangePasswordLoaded(g, f, fm_load_users(f.ufile, flt), flt,
                                         old_pwd, new_pwd, confirm_pwd, salt)

MaintenanceChangePasswordPage(g, rfile, flt, old_pwd, new_pwd, confirm_pwd, salt) ==
    IF ~g.ret THEN NoPage(g, rfile, "maintenance_password")
    ELSE IF ~MaintenanceGate(g.sess) THEN Say(g, rfile, "maintenance_password", "denied")
    ELSE MaintenanceChangePasswordEnsured(g, ensure_files(g.ufile, rfile, g.afile, flt, salt),
                                          flt, old_pwd, new_pwd, confirm_pwd, salt)

\* Settings & Maintenance, the Change Password form of config/settings.py
MaintenanceChangePasswordRun(sess, ufile, afile, rfile, flt, t, old_pwd, new_pwd, confirm_pwd, salt) ==
    MaintenanceChangePasswordPage(show_login_ui(sess, ufile, afile, flt, t, NoForm, salt),
                                  rfile, flt, old_pwd, new_pwd, confirm_pwd, salt)

\* lines 97-105 of view_edit.show: the fields of the selected record set
EditedRecord(rec, new_date, new_model, new_station, new_r1, new_r2, new_r3, new_output, username, t) ==
    [rec EXCEPT !.date = new_date, !.model = new_model, !.station = new_station,
                !.r1 = CycleTime_parse(new_r1), !.r2 = CycleTime_parse(new_r2),
                !.r3 = CycleTime_parse(new_r3), !.output = new_output,
                !.modified_by = username, !.modified_at = t]

\* records.pop(rec_idx)
Pop(records, idx) ==
    [i \in 1..(Len(records) - 1) |-> IF i < idx THEN records[i] ELSE records[i + 1]]

\* a button of View/Edit or of Data Maintenance once add_audit_log() has returned w
RecordsLogged(g, sv, w, ufile, flt, op, e) ==
    Response(g.sess, ufile, w.file, sv.file,
             Shown(op, "ok", IF "audit_write" \in flt THEN <<>> ELSE <<e>>, FALSE))

\* the same once save_records() has returned sv: a save that fails shows
\* nothing on View/Edit and an error on Data Maintenance
RecordsSaved(g, f, sv, flt, op, e) ==
    IF ~sv.ok
    THEN Response(g.sess, f.ufile, f.afile, sv.file, Shown(op, "save_failed", <<>>, FALSE))
    ELSE RecordsLogged(g, sv, add_audit_log(f.afile, flt, e), f.ufile, flt, op, e)

\* the edit form saving whatever parses, without the test of the three texts
\* (not the program: C19 is checked against it)
ViewEditEditLoaded_Partial(g, f, records, flt, t, idx, new_date, new_model, new_station, new_r1, new_r2, new_r3, new_output) ==
    IF records = <<>>
    THEN Response(g.sess, f.ufile, f.afile, f.rfile, Shown("edit_record", "no_records", <<>>, FALSE))
    ELSE IF idx \notin 1..Len(records)
    THEN Response(g.sess, f.ufile, f.afile, f.rfile, Shown("edit_record", "not_listed", <<>>, FALSE))
    ELSE RecordsSaved(g, f,
             fm_save_records(f.rfile, flt,
                 [records EXCEPT ![idx] =
                      EditedRecord(records[idx], new_date, new_model, new_station, new_r1,
                                   new_r2, new_r3, new_output, g.sess.username, t)]),
             flt, "edit_record",
             Entry("EDIT_RECORD", g.sess.username, <<"Edited: ", new_model, " - ", new_station>>))

\* the edit form of View/Edit with the records that load_records() returned
ViewEditEditLoaded(g, f, records, flt, t, idx, new_date, new_model, new_station, new_r1, new_r2, new_r3, new_output) ==
    IF records = <<>>
    THEN Response(g.sess, f.ufile, f.afile, f.rfile, Shown("edit_record", "no_records", <<>>, FALSE))
    ELSE IF idx \notin 1..Len(records)
    THEN Response(g.sess, f.ufile, f.afile, f.rfile, Shown("edit_record", "not_listed", <<>>, FALSE))
    ELSE IF \E val \in {new_r1, new_r2, new_r3} : ~validate_cycle_input(val)
    THEN Response(g.sess, f.ufile, f.afile, f.rfile, Shown("edit_record", "invalid", <<>>, FALSE))
    ELSE RecordsSaved(g, f,
             fm_save_records(f.rfile, flt,
                 [records EXCEPT ![idx] =
                      EditedRecord(records[idx], new_date, new_model, new_station, new_r1,
                                   new_r2, new_r3, new_output, g.sess.username, t)]),
             flt, "edit_record",
             Entry("EDIT_RECORD", g.sess.username, <<"Edited: ", new_model, " - ", new_station>>))

\* the same once load_records() has run ensure_files(), which returned f
ViewEditEditEnsured(g, f, flt, t, idx, new_date, new_model, new_station, new_r1, new_r2, new_r3, new_output) ==
    IF f.raised THEN Raised(g, f.ufile, f.afile, f.rfile, "edit_record")
    ELSE ViewEditEditLoaded(g, f, fm_load_records(f.rfile, flt), flt, t, idx, new_date,
                            new_model, new_station, new_r1, new_r2, new_r3, new_output)

ViewEditEditPage(g, rfile, flt, t, idx, new_date, new_model, new_station, new_r1, new_r2, new_r3, new_output, salt) ==
    IF ~g.ret THEN NoPage(g, rfile, "edit_record")
    ELSE ViewEditEditEnsured(g, ensure_files(g.ufile, rfile, g.afile, flt, salt), flt, t, idx,
                             new_date, new_model, new_station, new_r1, new_r2, new_r3,
                             new_output)

\* View/Edit Records, the edit form submitted for the idx-th record listed
ViewEditEditRun(sess, ufile, afile, rfile, flt, t, idx, new_date, new_model, new_station, new_r1, new_r2, new_r3, new_output, salt) ==
    ViewEditEditPage(show_login_ui(sess, ufile, afile, flt, t, NoForm, salt), rfile, flt, t,
                     idx, new_date, new_model, new_station, new_r1, new_r2, new_r3, new_output,
                     salt)

\* the delete button of View/Edit with the records that load_records() returned
ViewEditDeleteLoaded(g, f, records, flt, idx) ==
    IF records = <<>>
    THEN Response(g.sess, f.ufile, f.afile, f.rfile,
                  Shown("delete_record", "no_records", <<>>, FALSE))
    ELSE IF idx \notin 1..Len(records)
    THEN Response(g.sess, f.ufile, f.afile, f.rfile,
                  Shown("delete_record", "not_listed", <<>>, FALSE))
    ELSE RecordsSaved(g, f, fm_save_records(f.rfile, flt, Pop(records, idx)), flt,
                      "delete_record",
                      Entry("DELETE_RECORD", g.sess.username,
                            <<"Deleted: ", records[idx].model, " - ", records[idx].station>>))

ViewEditDeleteEnsured(g, f, flt, idx) ==
    IF f.raised THEN Raised(g, f.ufile, f.afile, f.rfile, "delete_record")
    ELSE ViewEditDeleteLoaded(g, f, fm_load_records(f.rfile, flt), flt, idx)

ViewEditDeletePage(g, rfile, flt, idx, salt) ==
    IF ~g.ret THEN NoPage(g, rfile, "delete_record")
    ELSE ViewEditDeleteEnsured(g, ensure_files(g.ufile, rfile, g.afile, flt, salt), flt, idx)

\* View/Edit Records, the delete button clicked for the idx-th record listed
ViewEditDeleteRun(sess, ufile, afile, rfile, flt, t, idx, salt) ==
    ViewEditDeletePage(show_login_ui(sess, ufile, afile, flt, t, NoForm, salt), rfile, flt, idx,
                       salt)

\* datetime.now().date(), the model's clock counting minutes
Today(t) == t \div (24 * 60)

\* the number n as f"{n}" prints it
NumStr(n) ==
    CASE n = 0 -> "0" [] n = 1 -> "1" [] n = 2 -> "2" [] n = 3 -> "3" [] n = 4 -> "4"
      [] OTHER -> "5+"

\* the same keeping the records of the cutoff day too (not the program: C20 is
\* checked against it)
NewerThan_Inclusive(records, cutoff_date) ==
    SelectSeq(records, LAMBDA r : r.date >= cutoff_date)

\* [r for r in records if pd.to_datetime(r.date).date() > cutoff_date]
NewerThan(records, cutoff_date) == SelectSeq(records, LAMBDA r : r.date > cutoff_date)

\* the Delete Old Records button once the records to keep are known
PurgeKept(g, f, records, kept, flt) ==
    RecordsSaved(g, f, fm_save_records(f.rfile, flt, kept), flt, "purge",
                 Entry("DELETE_OLD_RECORDS", g.sess.username,
                       <<"Deleted ", NumStr(Len(records) - Len(kept)), " records">>))

\* the same once load_records() has run ensure_files(), which returned f
PurgeEnsured(g, f, flt, t, days_old) ==
    IF f.raised THEN Raised(g, f.ufile, f.afile, f.rfile, "purge")
    ELSE PurgeKept(g, f, fm_load_records(f.rfile, flt),
                   NewerThan(fm_load_records(f.rfile, flt), Today(t) - days_old), flt)

PurgePage(g, rfile, flt, t, days_old, salt) ==
    IF ~g.ret THEN NoPage(g, rfile, "purge")
    ELSE IF ~MaintenanceGate(g.sess) THEN Say(g, rfile, "purge", "denied")
    ELSE PurgeEnsured(g, ensure_files(g.ufile, rfile, g.afile, flt, salt), flt, t, days_old)

\* Settings & Maintenance, the Delete Old Records button
PurgeRun(sess, ufile, afile, rfile, flt, t, days_old, salt) ==
    PurgePage(show_login_ui(sess, ufile, afile, flt, t, NoForm, salt), rfile, flt, t, days_old,
              salt)

-----------------------------------------------------------------------------
(* View/Edit Records with its filters, and the table it displays *)

\* a page that displays no table
NoView == [kind |-> "none", rows |-> <<>>]

\* a response and the table displayed with it
Viewed(resp, view) == [resp |-> resp, view |-> view]

\* the choice "all" of the two selectboxes
AllChoice == "(all)"

\* the three filters: a date or no date filter, a model or AllChoice, a search
Filters(by_date, date, model, station) ==
    [by_date |-> by_date, date |-> date, model |-> model, station |-> station]

NoFilters == Filters(FALSE, 0, AllChoice, "")

\* station_filter.lower() in r.station.lower(), for the stations S1, S2 and S9
InLower(station_filter, station) ==
    CASE station_filter = "s" -> station \in {"S1", "S2", "S9"}
      [] station_filter = "s1" -> station = "S1"
      [] station_filter = "9" -> station = "S9"
      [] OTHER -> FALSE

\* whether the three list comprehensions of lines 38-43 keep record r
Listed(r, fl) ==
    /\ fl.by_date => r.date = fl.date
    /\ fl.model # AllChoice => r.model = fl.model
    /\ fl.station # "" => InLower(fl.station, r.station)

\* the objects load_records() made: a CycleRecord carries its identity, here
\* the place it was created at
Objects(records) == [i \in 1..Len(records) |-> [id |-> i, rec |-> records[i]]]

\* filtered: the objects of records the filters keep, in the order of records
Filtered(records, fl) == SelectSeq(Objects(records), LAMBDA o : Listed(o.rec, fl))

\* an index that compares the fields of the records, as if CycleRecord
\* defined __eq__ (not the program: C26 is checked against it)
list_index_ByContent(objects, obj) ==
    CHOOSE i \in 1..Len(objects) :
        /\ objects[i].rec = obj.rec
        /\ \A j \in 1..(i - 1) : objects[j].rec # obj.rec

\* records.index(rec): the first place that holds an object equal to rec;
\* CycleRecord defines no __eq__, so equal is the same object
list_index(objects, obj) ==
    CHOOSE i \in 1..Len(objects) :
        /\ objects[i] = obj
        /\ \A j \in 1..(i - 1) : objects[j] # obj

\* rec_idx of the sel-th option of the selectbox, 0 when nothing is listed there
rec_idx(records, fl, sel) ==
    IF sel \in 1..Len(Filtered(records, fl))
    THEN list_index(Objects(records), Filtered(records, fl)[sel])
    ELSE 0

\* df of line 48: [r.to_dict() for r in filtered]
Table(filtered) ==
    [kind |-> "table", rows |-> [k \in 1..Len(filtered) |-> CycleRecord_to_dict(filtered[k].rec)]]

\* View/Edit drawn with no button clicked, once load_records() has returned
ViewEditShowLoaded(g, f, records, fl) ==
    IF records = <<>>
    THEN Viewed(Response(g.sess, f.ufile, f.afile, f.rfile,
                         Shown("view_records", "no_records", <<>>, FALSE)), NoView)
    ELSE Viewed(Response(g.sess, f.ufile, f.afile, f.rfile,
                         Shown("view_records", "listed", <<>>, FALSE)),
                Table(Filtered(records, fl)))

ViewEditShowEnsured(g, f, flt, fl) ==
    IF f.raised THEN Viewed(Raised(g, f.ufile, f.afile, f.rfile, "view_records"), NoView)
    ELSE ViewEditShowLoaded(g, f, fm_load_records(f.rfile, flt), fl)

ViewEditShowPage(g, rfile, flt, fl, salt) ==
    IF ~g.ret THEN Viewed(NoPage(g, rfile, "view_records"), NoView)
    ELSE ViewEditShowEnsured(g, ensure_files(g.ufile, rfile, g.afile, flt, salt), flt, fl)

\* View/Edit Records drawn with filters fl
ViewEditShowRun(sess, ufile, afile, rfile, flt, t, fl, salt) ==
    ViewEditShowPage(show_login_ui(sess, ufile, afile, flt, t, NoForm, salt), rfile, flt, fl,
                     salt)

\* the edit form submitted for the sel-th record listed under filters fl;
\* i is <<date, model, station, r1, r2, r3, output>>
ViewEditListedEditEnsured(g, f, flt, t, fl, sel, i) ==
    IF f.raised THEN Raised(g, f.ufile, f.afile, f.rfile, "edit_record")
    ELSE ViewEditEditLoaded(g, f, fm_load_records(f.rfile, flt), flt, t,
                            rec_idx(fm_load_records(f.rfile, flt), fl, sel),
                            i[1], i[2], i[3], i[4], i[5], i[6], i[7])

ViewEditListedEditPage(g, rfile, flt, t, fl, sel, i, salt) ==
    IF ~g.ret THEN NoPage(g, rfile, "edit_record")
    ELSE ViewEditListedEditEnsured(g, ensure_files(g.ufile, rfile, g.afile, flt, salt), flt, t,
                                   fl, sel, i)

ViewEditListedEditRun(sess, ufile, afile, rfile, flt, t, fl, sel, i, salt) ==
    ViewEditListedEditPage(show_login_ui(sess, ufile, afile, flt, t, NoForm, salt), rfile, flt,
                           t, fl, sel, i, salt)

\* the delete button clicked for the sel-th record listed under filters fl
ViewEditListedDeleteEnsured(g, f, flt, fl, sel) ==
    IF f.raised THEN Raised(g, f.ufile, f.afile, f.rfile, "delete_record")
    ELSE ViewEditDeleteLoaded(g, f, fm_load_records(f.rfile, flt), flt,
                              rec_idx(fm_load_records(f.rfile, flt), fl, sel))

ViewEditListedDeletePage(g, rfile, flt, fl, sel, salt) ==
    IF ~g.ret THEN NoPage(g, rfile, "delete_record")
    ELSE ViewEditListedDeleteEnsured(g, ensure_files(g.ufile, rfile, g.afile, flt, salt), flt,
                                     fl, sel)

ViewEditListedDeleteRun(sess, ufile, afile, rfile, flt, t, fl, sel, salt) ==
    ViewEditListedDeletePage(show_login_ui(sess, ufile, afile, flt, t, NoForm, salt), rfile,
                             flt, fl, sel, salt)

-----------------------------------------------------------------------------
(* UPH Analytics of views/analytics.py, the first pass of show() up to the   *)
(* results table.  The file repeats the body of show() after line 230; the   *)
(* widgets of the repeat carry the labels and keys of the first pass, so the *)
(* run ends there with an exception that app.main() shows below the results. *)

\* row.get('average') is not empty and CycleTime.parse() reads it
HasAverage(row) == row.average # Typed("") /\ CycleTime_parse(row.average).some

\* df_filtered then model_data: the rows of the date range and of the model
ModelData(rows, start_date, end_date, selected_model) ==
    SelectSeq(rows, LAMBDA row : /\ row.date >= start_date
                                 /\ row.date <= end_date
                                 /\ row.model = selected_model)

\* stations: one entry for each row of model_data that has an average
Stations(model_data) ==
    [k \in 1..Len(SelectSeq(model_data, HasAverage)) |->
        [station |-> SelectSeq(model_data, HasAverage)[k].station,
         ct |-> CycleTime_parse(SelectSeq(model_data, HasAverage)[k].average),
         saved_output |-> SelectSeq(model_data, HasAverage)[k].output]]

\* the station names in the order groupby('station') sorts them
StationOrder == <<"S1", "S2", "S9">>

RECURSIVE SumSeq(_)
SumSeq(xs) == IF xs = <<>> THEN 0 ELSE Head(xs) + SumSeq(Tail(xs))

\* agg 'mean' of the pre, machine and post columns of one group
GroupMean(group) ==
    CycleTime(SumSeq([k \in 1..Len(group) |-> group[k].ct.pre]) \div Len(group),
              SumSeq([k \in 1..Len(group) |-> group[k].ct.machine]) \div Len(group),
              SumSeq([k \in 1..Len(group) |-> group[k].ct.post]) \div Len(group))

\* int(float(str(saved).strip())) if saved else 1, and 1 when that raises
default_output(saved) ==
    CASE saved = "40" -> 40
      [] saved = "7" -> 7
      [] saved = "0" -> 0
      [] OTHER -> 1

\* a number of units an hour: num / den
Rational(num, den) == [num |-> num, den |-> den]

\* a UPH that divides whatever the total is (not the program: C25 is checked
\* against it)
UPH_Unguarded(total_seconds, output) == Rational(3600 * 10 * Tenth * output, total_seconds)

\* the lambda of line 136: 3600.0 / total_seconds * output, or 0
UPH(total_seconds, output) ==
    IF total_seconds > 0 THEN Rational(3600 * 10 * Tenth * output, total_seconds)
    ELSE Rational(0, 1)

\* a row of result_df: the group of a station, the number typed for it (0
\* when the default is left) and the UPH
ResultRow(group, typed) ==
    [station |-> group[1].station,
     avg |-> GroupMean(group),
     output |-> IF typed = 0 THEN default_output(group[1].saved_output) ELSE typed,
     UPH |-> UPH(GroupMean(group).pre + GroupMean(group).machine + GroupMean(group).post,
                 IF typed = 0 THEN default_output(group[1].saved_output) ELSE typed)]

\* avg_df: the groups of stations in the order of the station names
Groups(stations) ==
    SelectSeq([k \in 1..Len(StationOrder) |->
                  SelectSeq(stations, LAMBDA e : e.station = StationOrder[k])],
              LAMBDA group : group # <<>>)

ResultTable(groups, typed) ==
    [kind |-> "uph", rows |-> [k \in 1..Len(groups) |-> ResultRow(groups[k], typed)]]

\* show() once stations is known
AnalyticsStations(g, f, stations, typed) ==
    IF stations = <<>>
    THEN Viewed(Response(g.sess, f.ufile, f.afile, f.rfile,
                         Shown("analytics", "no_cycle_time", <<>>, FALSE)), NoView)
    ELSE IF typed = 0 /\ \E k \in 1..Len(stations) : default_output(stations[k].saved_output) < 1
    THEN Viewed(Raised(g, f.ufile, f.afile, f.rfile, "analytics"), NoView)
    ELSE Viewed(Response(g.sess, f.ufile, f.afile, f.rfile,
                         Shown("analytics", "results", <<>>, FALSE)),
                ResultTable(Groups(stations), typed))

\* show() once load_records() has returned
AnalyticsLoaded(g, f, records, start_date, end_date, selected_model, typed) ==
    IF records = <<>>
    THEN Viewed(Response(g.sess, f.ufile, f.afile, f.rfile,
                         Shown("analytics", "no_records", <<>>, FALSE)), NoView)
    ELSE IF ModelData(Table(Objects(records)).rows, start_date, end_date, selected_model) = <<>>
    THEN Viewed(Response(g.sess, f.ufile, f.afile, f.rfile,
                         Shown("analytics", "no_data", <<>>, FALSE)), NoView)
    ELSE AnalyticsStations(g, f,
             Stations(ModelData(Table(Objects(records)).rows, start_date, end_date,
                                selected_model)),
             typed)

AnalyticsEnsured(g, f, flt, start_date, end_date, selected_model, typed) ==
    IF f.raised THEN Viewed(Raised(g, f.ufile, f.afile, f.rfile, "analytics"), NoView)
    ELSE AnalyticsLoaded(g, f, fm_load_records(f.rfile, flt), start_date, end_date,
                         selected_model, typed)

AnalyticsPage(g, rfile, flt, start_date, end_date, selected_model, typed, salt) ==
    IF ~g.ret THEN Viewed(NoPage(g, rfile, "analytics"), NoView)
    ELSE AnalyticsEnsured(g, ensure_files(g.ufile, rfile, g.afile, flt, salt), flt, start_date,
                          end_date, selected_model, typed)

\* UPH Analytics drawn for a date range, a model and the outputs typed
AnalyticsRun(sess, ufile, afile, rfile, flt, t, start_date, end_date, selected_model, typed, salt) ==
    AnalyticsPage(show_login_ui(sess, ufile, afile, flt, t, NoForm, salt), rfile, flt,
                  start_date, end_date, selected_model, typed, salt)

\* the new_record literal of main_entry.show (its id and timestamps left out)
NewRecord(work_date, part_number, operator_name, machine_id, station, cycle_time, quantity, username) ==
    [date |-> work_date, part_number |-> part_number, operator_name |-> operator_name,
     machine_id |-> machine_id, station |-> station, cycle_time |-> cycle_time,
     quantity |-> quantity, entered_by |-> username]

\* main_entry.load_records()
entry_load_records(rfile, flt) ==
    IF rfile.kind = "list" /\ "records_read" \notin flt THEN rfile.data ELSE <<>>

\* main_entry.save_records(records)
entry_save_records(rfile, flt, records) ==
    save_json(rfile, "records_write" \in flt, "list", records)

\* the Save Record button once save_records() has returned sv (or raised)
DataEntrySaveDone(g, sv, rfile) ==
    IF sv.raised THEN Raised(g, g.ufile, g.afile, rfile, "record_append")
    ELSE Response(g.sess, g.ufile, g.afile, sv.file, Shown("record_append", "ok", <<>>, FALSE))

DataEntrySavePage(g, rfile, flt, work_date, part_number, operator_name, machine_id, station, cycle_time, quantity) ==
    IF ~g.ret THEN NoPage(g, rfile, "record_append")
    ELSE IF part_number = "" \/ operator_name = "" \/ machine_id = ""
    THEN Say(g, rfile, "record_append", "required")
    ELSE IF cycle_time <= 0 THEN Say(g, rfile, "record_append", "cycle_time")
    ELSE DataEntrySaveDone(g,
                           entry_save_records(rfile, flt,
                               Append(entry_load_records(rfile, flt),
                                      NewRecord(work_date, part_number, operator_name,
                                                machine_id, station, cycle_time, quantity,
                                                g.sess.username))),
                           rfile)

\* Data Entry, the Save Record button
DataEntrySaveRun(sess, ufile, afile, rfile, flt, t, work_date, part_number, operator_name, machine_id, station, cycle_time, quantity, salt) ==
    DataEntrySavePage(show_login_ui(sess, ufile, afile, flt, t, NoForm, salt), rfile, flt,
                      work_date, part_number, operator_name, machine_id, station, cycle_time,
                      quantity)

-----------------------------------------------------------------------------
(* reset_users.py *)

\* the default_users literal of reset_users(): key "password", role "admin"
reset_default_users(salt) ==
    [u \in {"admin"} |->
        UserRec(NoHash, security_hash_password("admin123", salt), "admin", NoneS, NoneS)]

-----------------------------------------------------------------------------
(* The state machine *)

FaultKinds == {"users_read", "users_write", "audit_write"}
FaultSets == {{}} \cup {{k} : k \in FaultKinds}

\* last holds the response of the step that led to the state, when that step
\* was a script run, and in over the document its save replaced when another
\* session had saved it after this run's load, and in view the table the page
\* displayed; NoResponse after any other step
NoDoc == [kind |-> "none", data |-> <<>>]

NoResponse == [sid |-> "none", shown |-> Shown("none", "none", <<>>, FALSE), over |-> NoDoc, view |-> NoView]

\* a session with no script run between its load and its save.  doc is the
\* document the run will write, shown what it will show, other what another
\* session has saved to the same file since this run loaded, or NoDoc
IdleWork ==
    [pc |-> "idle", target |-> "none", doc |-> NoDoc, other |-> NoDoc,
     shown |-> Shown("none", "none", <<>>, FALSE)]

Init ==
    /\ now = 0
    /\ sessions = [s \in SessionIds |-> AnonymousSession]
    /\ usersFile = AbsentFile
    /\ auditFile = AbsentFile
    /\ recordsFile = AbsentFile
    /\ faults = {}
    /\ last = NoResponse
    /\ auditHist = <<>>
    /\ work = [s \in SessionIds |-> IdleWork]

\* the documents stay within the bounds of the model
InBounds(r) ==
    /\ r.afile.kind = "list" => Len(r.afile.data) <= MaxAudit
    /\ r.rfile.kind = "list" => Len(r.rfile.data) <= MaxRecords

\* a script run of session s ends with response r
Effects(s, r) ==
    /\ sessions' = [sessions EXCEPT ![s] = r.sess]
    /\ usersFile' = r.ufile
    /\ auditFile' = r.afile
    /\ recordsFile' = r.rfile
    /\ last' = [sid |-> s, shown |-> r.shown, over |-> NoDoc, view |-> NoView]
    /\ UNCHANGED <<now, faults, work>>

Commit(s, r) ==
    /\ InBounds(r)
    /\ Effects(s, r)
    /\ UNCHANGED auditHist

\* the same, keeping the history of the audit entries written
CommitTracked(s, r) ==
    /\ Len(auditHist) < AuditCap + NearCap
    /\ Effects(s, r)
    /\ auditHist' = auditHist \o r.shown.logged

Tick(d) ==
    /\ now + d <= MaxTime
    /\ now' = now + d
    /\ last' = NoResponse
    /\ UNCHANGED <<sessions, usersFile, auditFile, recordsFile, faults, auditHist, work>>

SubmitLogin(s, username, password, salt) ==
    /\ ~sessions[s].logged_in
    /\ Commit(s, SubmitLoginRun(sessions[s], usersFile, auditFile, recordsFile, faults, now,
                                username, password, salt))

ClickLogout(s, salt) ==
    /\ sessions[s].logged_in
    /\ Commit(s, ClickLogoutRun(sessions[s], usersFile, auditFile, recordsFile, faults, now, salt))

RequireAuth(s, role_required) ==
    Commit(s, RequireAuthRun(sessions[s], usersFile, auditFile, recordsFile, faults, now,
                             role_required))

AdminAddUser(s, new_user, new_full_name, new_pass, new_pass_conf, new_role, salt) ==
    /\ sessions[s].logged_in
    /\ Commit(s, AdminAddUserRun(sessions[s], usersFile, auditFile, recordsFile, faults, now,
                                 new_user, new_full_name, new_pass, new_pass_conf, new_role,
                                 salt))

AdminRemoveUser(s, to_remove, salt) ==
    /\ sessions[s].logged_in
    /\ Commit(s, AdminRemoveUserRun(sessions[s], usersFile, auditFile, recordsFile, faults, now,
                                    to_remove, salt))

AdminChangeRole(s, selected_user, new_role, salt) ==
    /\ sessions[s].logged_in
    /\ Commit(s, AdminChangeRoleRun(sessions[s], usersFile, auditFile, recordsFile, faults, now,
                                    selected_user, new_role, salt))

SettingsChangePassword(s, current_password, new_password, confirm_password, salt) ==
    /\ sessions[s].logged_in
    /\ Commit(s, SettingsChangePasswordRun(sessions[s], usersFile, auditFile, recordsFile,
                                           faults, now, current_password, new_password,
                                           confirm_password, salt))

MaintenancePage(s, salt) ==
    /\ sessions[s].logged_in
    /\ Commit(s, MaintenancePageRun(sessions[s], usersFile, auditFile, recordsFile, faults, now,
                                    salt))

DataEntrySave(s, part_number, cycle_time, salt) ==
    /\ sessions[s].logged_in
    /\ Commit(s, DataEntrySaveRun(sessions[s], usersFile, auditFile, recordsFile, faults, now,
                                  1, part_number, "op", "M-001", "Line A", cycle_time, 1, salt))

\* the audit document is removed (rotated away by the operator)
AuditFileRemoved ==
    /\ auditFile.kind # "absent"
    /\ auditFile' = AbsentFile
    /\ last' = NoResponse
    /\ UNCHANGED <<now, sessions, usersFile, recordsFile, faults, auditHist, work>>

Next ==
    \/ \E d \in TickSteps : Tick(d)
    \/ \E s \in DOMAIN sessions, i \in LoginInputs, salt \in Salts :
          SubmitLogin(s, i[1], i[2], salt)
    \/ \E s \in DOMAIN sessions, salt \in Salts : ClickLogout(s, salt)
    \/ \E s \in DOMAIN sessions, r \in {NoneS, "Admin"} : RequireAuth(s, r)
    \/ \E s \in DOMAIN sessions, i \in AddUserInputs, salt \in Salts :
          AdminAddUser(s, i[1], i[2], i[3], i[4], i[5], salt)
    \/ \E s \in DOMAIN sessions, u \in Usernames, salt \in Salts : AdminRemoveUser(s, u, salt)
    \/ \E s \in DOMAIN sessions, u \in Usernames, r \in Roles, salt \in Salts :
          AdminChangeRole(s, u, r, salt)
    \/ \E s \in DOMAIN sessions, i \in ChangePasswordInputs, salt \in Salts :
          SettingsChangePassword(s, i[1], i[2], i[3], salt)
    \/ \E s \in DOMAIN sessions, salt \in Salts : MaintenancePage(s, salt)
    \/ \E s \in DOMAIN sessions, i \in DataEntryInputs, salt \in Salts :
          DataEntrySave(s, i[1], i[2], salt)
    \/ AuditFileRemoved

Spec == Init /\ [][Next]_vars

-----------------------------------------------------------------------------
(* The same program with a damaged or refused users and audit document.  The *)
(* clock stands still here.                                                    *)

UsersFileDamaged(kind) ==
    /\ usersFile.kind # kind
    /\ usersFile' = [kind |-> kind, data |-> <<>>]
    /\ last' = NoResponse
    /\ UNCHANGED <<now, sessions, auditFile, recordsFile, faults, auditHist, work>>

AuditFileDamaged ==
    /\ auditFile.kind # "corrupt"
    /\ auditFile' = [kind |-> "corrupt", data |-> <<>>]
    /\ last' = NoResponse
    /\ UNCHANGED <<now, sessions, usersFile, recordsFile, faults, auditHist, work>>

SetFaults(f) ==
    /\ faults # f
    /\ faults' = f
    /\ last' = NoResponse
    /\ UNCHANGED <<now, sessions, usersFile, auditFile, recordsFile, auditHist, work>>

NextEnv ==
    \/ \E s \in DOMAIN sessions, i \in LoginInputs, salt \in Salts :
          SubmitLogin(s, i[1], i[2], salt)
    \/ \E s \in DOMAIN sessions, salt \in Salts : ClickLogout(s, salt)
    \/ \E s \in DOMAIN sessions, i \in AddUserInputs, salt \in Salts :
          AdminAddUser(s, i[1], i[2], i[3], i[4], i[5], salt)
    \/ \E s \in DOMAIN sessions, u \in Usernames, salt \in Salts : AdminRemoveUser(s, u, salt)
    \/ \E s \in DOMAIN sessions, u \in Usernames, r \in Roles, salt \in Salts :
          AdminChangeRole(s, u, r, salt)
    \/ \E s \in DOMAIN sessions, i \in ChangePasswordInputs, salt \in Salts :
          SettingsChangePassword(s, i[1], i[2], i[3], salt)
    \/ \E k \in {"absent", "corrupt", "nondict"} : UsersFileDamaged(k)
    \/ AuditFileDamaged
    \/ \E f \in FaultSets : SetFaults(f)

SpecEnv == Init /\ [][NextEnv]_vars

-----------------------------------------------------------------------------
(* The program after the reset utility has rewritten the users document. *)

\* python reset_users.py, choice 1
ResetUsers(salt) ==
    /\ "users_write" \notin faults
    /\ usersFile' = [kind |-> "dict", data |-> reset_default_users(salt)]
    /\ last' = NoResponse
    /\ UNCHANGED <<now, sessions, auditFile, recordsFile, faults, auditHist, work>>

NextReset ==
    \/ \E salt \in Salts : ResetUsers(salt)
    \/ \E s \in DOMAIN sessions, i \in LoginInputs, salt \in Salts :
          SubmitLogin(s, i[1], i[2], salt)
    \/ \E s \in DOMAIN sessions, salt \in Salts : ClickLogout(s, salt)
    \/ \E s \in DOMAIN sessions, r \in {NoneS, "Admin"} : RequireAuth(s, r)
    \/ \E s \in DOMAIN sessions, i \in AddUserInputs, salt \in Salts :
          AdminAddUser(s, i[1], i[2], i[3], i[4], i[5], salt)
    \/ \E s \in DOMAIN sessions, salt \in Salts : MaintenancePage(s, salt)
    \/ AuditFileRemoved

SpecReset == Init /\ [][NextReset]_vars

-----------------------------------------------------------------------------
(* The credential store alone: the requests that read or write the users     *)
(* document, with the clock standing still and no refused read or write.     *)

\* Add User inputs whose password validate_password_strength rejects
WeakUserInputs ==
    {<<"bob", "", "abc", "abc", "Member">>, <<"bob", "", "1234567", "1234567", "Member">>}

MaintenanceChangePassword(s, old_pwd, new_pwd, confirm_pwd, salt) ==
    /\ sessions[s].logged_in
    /\ Commit(s, MaintenanceChangePasswordRun(sessions[s], usersFile, auditFile, recordsFile,
                                              faults, now, old_pwd, new_pwd, confirm_pwd, salt))

NextStore ==
    \/ \E s \in DOMAIN sessions, i \in LoginInputs, salt \in Salts :
          SubmitLogin(s, i[1], i[2], salt)
    \/ \E s \in DOMAIN sessions, salt \in Salts : ClickLogout(s, salt)
    \/ \E s \in DOMAIN sessions, i \in AddUserInputs \cup WeakUserInputs, salt \in Salts :
          AdminAddUser(s, i[1], i[2], i[3], i[4], i[5], salt)
    \/ \E s \in DOMAIN sessions, u \in Usernames, salt \in Salts : AdminRemoveUser(s, u, salt)
    \/ \E s \in DOMAIN sessions, u \in Usernames, r \in Roles, salt \in Salts :
          AdminChangeRole(s, u, r, salt)
    \/ \E s \in DOMAIN sessions, i \in ChangePasswordInputs, salt \in Salts :
          SettingsChangePassword(s, i[1], i[2], i[3], salt)
    \/ \E s \in DOMAIN sessions, i \in ChangePasswordInputs, salt \in Salts :
          MaintenanceChangePassword(s, i[1], i[2], i[3], salt)
    \/ UsersFileDamaged("absent")
    \/ AuditFileRemoved

SpecStore == Init /\ [][NextStore]_vars

-----------------------------------------------------------------------------

(* The record store: View/Edit Records and Data Maintenance on a records     *)
(* document that save_records wrote earlier.  The clock stands still.        *)

\* the dates, in days from today, of the records the document starts with
InitialDates == {<<0, -2, -1>>, <<-1, -1, -3>>, <<-2, 0>>}

\* a record entered the day before by user "op1", as save_records writes it
SavedItem(date, i) ==
    CycleRecord_to_dict(
        CycleRecord(date, IF i = 1 THEN "M1" ELSE "M2", "S1",
                    CycleTime_parse(Typed("5(12)4")),
                    IF i = 2 THEN CycleTime_parse(Typed(" 1 ( 2 ) 3 ")) ELSE NoCycleTime,
                    NoCycleTime, "op1", -1, "", "op1", -1))

InitialRecords(dates) == [i \in 1..Len(dates) |-> SavedItem(dates[i], i)]

\* <<date, model, station, r1, r2, r3, output>> of the edit form
EditInputs ==
    {<<-1, "M9", "S9", Typed(" 1 ( 2 ) 3 "), Typed(""), Typed("5(12)4"), "40">>,
     <<-1, "M9", "S9", Typed("bad"), Typed("5(12)4"), Typed(""), "40">>,
     <<0, "M1", "S1", Typed("5(12)4"), Typed("5(12"), Typed("bad"), "">>,
     <<-2, "M1", "S1", Typed(""), Typed(""), Typed(""), "">>,
     <<-3, "M2", "S2", Typed("5(12)4"), Typed(" 1 ( 2 ) 3 "), Typed("0.5(1)0"), "7">>}

\* the slider of Delete Old Records
DaysOld == {0, 1, 2}

\* the rows a click can name, and one that is not listed
Rows == IF recordsFile.kind = "list" THEN 1..(Len(recordsFile.data) + 1) ELSE {1}

\* the state admin's login leaves, with a records document of earlier days
AfterLogin(rfile) ==
    SubmitLoginRun(AnonymousSession, AbsentFile, AbsentFile, rfile, {}, 0, DEFAULT_ADMIN[1],
                   DEFAULT_ADMIN[2], "a1")

InitRecords ==
    /\ now = 0
    /\ \E dates \in InitialDates :
          /\ recordsFile = [kind |-> "list", data |-> InitialRecords(dates)]
          /\ sessions = [s \in SessionIds |-> AfterLogin(recordsFile).sess]
          /\ usersFile = AfterLogin(recordsFile).ufile
          /\ auditFile = AfterLogin(recordsFile).afile
    /\ faults = {}
    /\ last = NoResponse
    /\ auditHist = <<>>
    /\ work = [s \in SessionIds |-> IdleWork]

\* a script run of the record pages ends with response r
CommitRecords(s, r) ==
    /\ r.afile.kind = "list" => Len(r.afile.data) <= MaxAudit
    /\ Effects(s, r)
    /\ UNCHANGED auditHist

EditRecord(s, idx, new_date, new_model, new_station, new_r1, new_r2, new_r3, new_output, salt) ==
    /\ sessions[s].logged_in
    /\ CommitRecords(s, ViewEditEditRun(sessions[s], usersFile, auditFile, recordsFile, faults,
                                        now, idx, new_date, new_model, new_station, new_r1,
                                        new_r2, new_r3, new_output, salt))

DeleteRecord(s, idx, salt) ==
    /\ sessions[s].logged_in
    /\ CommitRecords(s, ViewEditDeleteRun(sessions[s], usersFile, auditFile, recordsFile,
                                          faults, now, idx, salt))

PurgeOldRecords(s, days_old, salt) ==
    /\ sessions[s].logged_in
    /\ CommitRecords(s, PurgeRun(sessions[s], usersFile, auditFile, recordsFile, faults, now,
                                 days_old, salt))

NextRecords ==
    \/ \E s \in DOMAIN sessions, idx \in Rows, i \in EditInputs, salt \in Salts :
          EditRecord(s, idx, i[1], i[2], i[3], i[4], i[5], i[6], i[7], salt)
    \/ \E s \in DOMAIN sessions, idx \in Rows, salt \in Salts : DeleteRecord(s, idx, salt)
    \/ \E s \in DOMAIN sessions, d \in DaysOld, salt \in Salts : PurgeOldRecords(s, d, salt)
    \/ AuditFileRemoved

SpecRecords == InitRecords /\ [][NextRecords]_vars

-----------------------------------------------------------------------------

(* Two sessions whose script runs interleave.  A run loads a document, works *)
(* on its copy and saves it: open(file, 'w') empties the file, json.dump     *)
(* then writes the copy, and the other session's run may load or save in     *)
(* between.  Storage refuses nothing here; a write may still fail partway.   *)

ConcSessions == {"s1", "s2"}

\* <<date, model, station, r1, r2, r3, output>> the two sessions type
ConcEditInputs ==
    {<<-1, "M9", "S9", Typed(" 1 ( 2 ) 3 "), Typed(""), Typed("5(12)4"), "40">>}

\* Add User inputs of the two sessions: the same new user with two roles
ConcUserInputs ==
    {<<"bob", "Bob B", "Passw0rd", "Passw0rd", "Member">>,
     <<"bob", "", "Passw0rd", "Passw0rd", "Admin">>}

\* the file after open(file, 'w'): it exists and holds nothing
Truncated == [kind |-> "corrupt", data |-> <<>>]

\* a file that holds a part of a document, or parts of two
Partial == [kind |-> "corrupt", data |-> <<"partial">>]

\* the document a run holds, of the file it works on
FileOf(target, r) == IF target = "users" THEN r.ufile ELSE r.rfile

\* a save that keeps what another run has saved since the load (not the
\* program: C18 is checked against it)
Written_KeepNewer(other, doc) == IF other # NoDoc THEN other ELSE doc

\* the file a save leaves when nothing else writes meanwhile: json.dump writes
\* the copy the run holds, whatever another run has saved since the load
Written(other, doc) == doc

InitConc ==
    /\ now = 0
    /\ recordsFile = [kind |-> "list", data |-> InitialRecords(<<-2, 0>>)]
    /\ sessions = [s \in ConcSessions |-> AfterLogin(recordsFile).sess]
    /\ usersFile = AfterLogin(recordsFile).ufile
    /\ auditFile = AbsentFile
    /\ faults = {}
    /\ last = NoResponse
    /\ auditHist = <<>>
    /\ work = [s \in ConcSessions |-> IdleWork]

\* a run of session s starts: show_login_ui, then the page loads the file cur;
\* r is the response the run would end with if no other run wrote meanwhile,
\* and ensured the audit document once the load has run ensure_files().  A run
\* that has nothing to save ends here.
BeginRun(s, target, cur, ensured, r) ==
    /\ work[s].pc = "idle"
    /\ IF FileOf(target, r) = cur
       THEN /\ CommitRecords(s, r)
       ELSE /\ sessions' = [sessions EXCEPT ![s] = r.sess]
            /\ auditFile' = ensured
            /\ last' = NoResponse
            /\ UNCHANGED <<now, usersFile, recordsFile, faults, auditHist>>
    /\ work' = [work EXCEPT ![s] =
                   IF FileOf(target, r) = cur THEN IdleWork
                   ELSE [pc |-> "loaded", target |-> target, doc |-> FileOf(target, r),
                         other |-> NoDoc, shown |-> r.shown]]

BeginEdit(s, idx, i, salt) ==
    BeginRun(s, "records", recordsFile,
             ensure_files(usersFile, recordsFile, auditFile, faults, salt).afile,
             ViewEditEditRun(sessions[s], usersFile, auditFile, recordsFile, faults, now, idx,
                             i[1], i[2], i[3], i[4], i[5], i[6], i[7], salt))

BeginDelete(s, idx, salt) ==
    BeginRun(s, "records", recordsFile,
             ensure_files(usersFile, recordsFile, auditFile, faults, salt).afile,
             ViewEditDeleteRun(sessions[s], usersFile, auditFile, recordsFile, faults, now, idx,
                               salt))

BeginAddUser(s, i, salt) ==
    BeginRun(s, "users", usersFile, auditFile,
             AdminAddUserRun(sessions[s], usersFile, auditFile, recordsFile, faults, now,
                             i[1], i[2], i[3], i[4], i[5], salt))

\* open(file, 'w') of save_records and of save_json
OpenForWrite(s) ==
    /\ work[s].pc = "loaded"
    /\ work' = [work EXCEPT ![s].pc = "writing"]
    /\ IF work[s].target = "users"
       THEN usersFile' = Truncated /\ UNCHANGED recordsFile
       ELSE recordsFile' = Truncated /\ UNCHANGED usersFile
    /\ last' = NoResponse
    /\ UNCHANGED <<now, sessions, auditFile, faults, auditHist>>

\* the audit document after the entries of a run are appended to it
\* (log_audit_event from create_user, add_audit_log from the records pages)
Appended(target, afile, flt, logged) ==
    IF logged = <<>> THEN afile
    ELSE IF target = "users" THEN log_audit_event(afile, flt, logged[1]).file
    ELSE add_audit_log(afile, flt, logged[1]).file

\* the runs of the other sessions learn what session s has saved to their file
Noted(s, target, file) ==
    [o \in DOMAIN work |->
        IF o = s THEN IdleWork
        ELSE IF work[o].pc # "idle" /\ work[o].target = target
        THEN [work[o] EXCEPT !.other = file]
        ELSE work[o]]

\* the file session s writes, once the write has ended
WrittenFile(s, torn) == IF torn THEN Partial ELSE Written(work[s].other, work[s].doc)

\* json.dump and close, and the rest of the run.  When the other run has
\* written the file since this one emptied it, the two writes land on each
\* other: the file holds this run's document or parts of both.
FinishWrite(s, torn) ==
    /\ work[s].pc = "writing"
    /\ torn => FileOf(work[s].target, [ufile |-> usersFile, rfile |-> recordsFile]) # Truncated
    /\ Appended(work[s].target, auditFile, faults, work[s].shown.logged).kind = "list"
          => Len(Appended(work[s].target, auditFile, faults, work[s].shown.logged).data) <= MaxAudit
    /\ IF work[s].target = "users"
       THEN usersFile' = WrittenFile(s, torn) /\ UNCHANGED recordsFile
       ELSE recordsFile' = WrittenFile(s, torn) /\ UNCHANGED usersFile
    /\ auditFile' = Appended(work[s].target, auditFile, faults, work[s].shown.logged)
    /\ last' = [sid |-> s, shown |-> work[s].shown, over |-> work[s].other,
                view |-> NoView]
    /\ work' = Noted(s, work[s].target, WrittenFile(s, torn))
    /\ UNCHANGED <<now, sessions, faults, auditHist>>

\* json.dump raises partway (the disk is full): the file keeps what was written.
\* save_records returns False; save_json raises again and create_user lets the
\* exception through
FailWrite(s) ==
    /\ work[s].pc = "writing"
    /\ IF work[s].target = "users"
       THEN usersFile' = Partial /\ UNCHANGED recordsFile
       ELSE recordsFile' = Partial /\ UNCHANGED usersFile
    /\ last' = [sid |-> s,
                shown |-> Shown(work[s].shown.op,
                                IF work[s].target = "users" THEN "exception"
                                ELSE "save_failed", <<>>, FALSE),
                over |-> NoDoc, view |-> NoView]
    /\ work' = Noted(s, work[s].target, Partial)
    /\ UNCHANGED <<now, sessions, auditFile, faults, auditHist>>

NextConc ==
    \/ \E s \in DOMAIN sessions, idx \in Rows, i \in ConcEditInputs, salt \in Salts :
          BeginEdit(s, idx, i, salt)
    \/ \E s \in DOMAIN sessions, idx \in Rows, salt \in Salts : BeginDelete(s, idx, salt)
    \/ \E s \in DOMAIN sessions, i \in ConcUserInputs, salt \in Salts : BeginAddUser(s, i, salt)
    \/ \E s \in DOMAIN sessions : OpenForWrite(s)
    \/ \E s \in DOMAIN sessions, torn \in BOOLEAN : FinishWrite(s, torn)
    \/ \E s \in DOMAIN sessions : FailWrite(s)
    \/ AuditFileRemoved

SpecConc == InitConc /\ [][NextConc]_vars

-----------------------------------------------------------------------------

(* View/Edit with its filters and UPH Analytics, one logged-in Admin.  The   *)
(* records document starts as save_records wrote it (with two records of     *)
(* equal content, or with readings of zero and a record without readings),  *)
(* or as someone edited it by hand (a reading that does not parse, an entry  *)
(* without the optional keys).                                               *)

\* an entry as save_records writes it for a record user "op1" entered
ViewItem(date, model, station, r1, r2, r3, output) ==
    CycleRecord_to_dict(
        CycleRecord(date, model, station, CycleTime_parse(Typed(r1)), CycleTime_parse(Typed(r2)),
                    CycleTime_parse(Typed(r3)), "op1", -1, output, "op1", -1))

\* an entry that holds the required keys and r1 alone
BareItem(date, model, station, r1) ==
    [date |-> date, model |-> model, station |-> station, r1 |-> Typed(r1),
     created_by |-> "op1", created_at |-> -1]

SavedDocs ==
    {<<ViewItem(-1, "M1", "S1", "5(12)4", "", "", "40"),
       ViewItem(-1, "M2", "S9", "5(12)4", " 1 ( 2 ) 3 ", "", "7"),
       ViewItem(-1, "M1", "S1", "5(12)4", "", "", "40")>>,
     <<ViewItem(0, "M1", "S1", "0(0)0", "", "", "7"),
       ViewItem(0, "M1", "S2", "", "", "", "40"),
       ViewItem(-1, "M1", "S9", "5(12)4", " 1 ( 2 ) 3 ", "0.5(1)0", "")>>}

HandEditedDocs ==
    {<<[ViewItem(-2, "M1", "S1", "5(12)4", "0.5(1)0", "", "40") EXCEPT !.r2 = Typed("bad")],
       BareItem(-1, "M2", "S2", "5(12)4"),
       [ViewItem(-1, "M2", "S9", "5(12)4", " 1 ( 2 ) 3 ", "0.5(1)0", "7") EXCEPT
           !.r1 = Typed("5(12"), !.r3 = Typed("bad")]>>}

ViewDocs == SavedDocs \cup HandEditedDocs

\* <<date, model, station, r1, r2, r3, output>> typed into the edit form
ViewEditInputs ==
    {<<-1, "M9", "S9", Typed("0.14(1)0"), Typed("0.14(1)0"), Typed("0.24(1)0"), "7">>,
     <<-2, "M1", "S1", Typed("5(12)4"), Typed(""), Typed(" 1 ( 2 ) 3 "), "40">>}

ViewFilters ==
    {NoFilters, Filters(FALSE, 0, "M1", ""), Filters(TRUE, -1, AllChoice, "9")}

\* the options a click can name; the third is not listed under some filters
Options == 1..3

\* start and end of the date range, the model chosen, the output typed
DateRanges == {<<-2, 0>>, <<0, 0>>}
Models == {"M1", "M2", "M9"}
TypedOutputs == {0, 3}

InitView ==
    /\ now = 0
    /\ \E doc \in ViewDocs :
          /\ recordsFile = [kind |-> "list", data |-> doc]
          /\ sessions = [s \in SessionIds |-> AfterLogin(recordsFile).sess]
          /\ usersFile = AfterLogin(recordsFile).ufile
          /\ auditFile = AfterLogin(recordsFile).afile
    /\ faults = {}
    /\ last = NoResponse
    /\ auditHist = <<>>
    /\ work = [s \in SessionIds |-> IdleWork]

\* a script run that displays a table ends with response v.resp and table v.view
CommitView(s, v) ==
    /\ v.resp.afile.kind = "list" => Len(v.resp.afile.data) <= MaxAudit
    /\ sessions' = [sessions EXCEPT ![s] = v.resp.sess]
    /\ usersFile' = v.resp.ufile
    /\ auditFile' = v.resp.afile
    /\ recordsFile' = v.resp.rfile
    /\ last' = [sid |-> s, shown |-> v.resp.shown, over |-> NoDoc, view |-> v.view]
    /\ UNCHANGED <<now, faults, work, auditHist>>

ShowRecords(s, fl, salt) ==
    /\ sessions[s].logged_in
    /\ CommitView(s, ViewEditShowRun(sessions[s], usersFile, auditFile, recordsFile, faults, now,
                                     fl, salt))

EditListed(s, fl, sel, i, salt) ==
    /\ sessions[s].logged_in
    /\ CommitRecords(s, ViewEditListedEditRun(sessions[s], usersFile, auditFile, recordsFile,
                                              faults, now, fl, sel, i, salt))

DeleteListed(s, fl, sel, salt) ==
    /\ sessions[s].logged_in
    /\ CommitRecords(s, ViewEditListedDeleteRun(sessions[s], usersFile, auditFile, recordsFile,
                                                faults, now, fl, sel, salt))

CalculateUPH(s, range, selected_model, typed, salt) ==
    /\ sessions[s].logged_in
    /\ CommitView(s, AnalyticsRun(sessions[s], usersFile, auditFile, recordsFile, faults, now,
                                  range[1], range[2], selected_model, typed, salt))

NextView ==
    \/ \E s \in DOMAIN sessions, fl \in ViewFilters, salt \in Salts : ShowRecords(s, fl, salt)
    \/ \E s \in DOMAIN sessions, fl \in ViewFilters, sel \in Options, i \in ViewEditInputs, salt \in Salts :
          EditListed(s, fl, sel, i, salt)
    \/ \E s \in DOMAIN sessions, fl \in ViewFilters, sel \in Options, salt \in Salts :
          DeleteListed(s, fl, sel, salt)
    \/ \E s \in DOMAIN sessions, range \in DateRanges, m \in Models, typed \in TypedOutputs, salt \in Salts :
          CalculateUPH(s, range, m, typed, salt)
    \/ AuditFileRemoved

SpecView == InitView /\ [][NextView]_vars

-----------------------------------------------------------------------------

(* Two browser sessions on one users document: the second logs in as a user  *)
(* whose role the first then changes, or whom the first removes.             *)

RoleSessions == {"s1", "s2"}

\* <<username, password>> typed into the login form
RoleLoginInputs == {<<"admin", "admin123">>, <<"bob", "Passw0rd">>, <<"bob", "admin123">>}

\* <<username, full name, password, confirmation, role>> of the Add User form
RoleUserInputs ==
    {<<"bob", "Bob B", "Passw0rd", "Passw0rd", "Admin">>,
     <<"bob", "", "Passw0rd", "Passw0rd", "Member">>}

InitRoles ==
    /\ now = 0
    /\ sessions = [s \in RoleSessions |-> AnonymousSession]
    /\ usersFile = AbsentFile
    /\ auditFile = AbsentFile
    /\ recordsFile = AbsentFile
    /\ faults = {}
    /\ last = NoResponse
    /\ auditHist = <<>>
    /\ work = [s \in RoleSessions |-> IdleWork]

NextRoles ==
    \/ \E d \in TickSteps : Tick(d)
    \/ \E s \in DOMAIN sessions, i \in RoleLoginInputs, salt \in Salts :
          SubmitLogin(s, i[1], i[2], salt)
    \/ \E s \in DOMAIN sessions, salt \in Salts : ClickLogout(s, salt)
    \/ \E s \in DOMAIN sessions, r \in {NoneS, "Admin"} : RequireAuth(s, r)
    \/ \E s \in DOMAIN sessions, i \in RoleUserInputs, salt \in Salts :
          AdminAddUser(s, i[1], i[2], i[3], i[4], i[5], salt)
    \/ \E s \in DOMAIN sessions, salt \in Salts : AdminRemoveUser(s, "bob", salt)
    \/ \E s \in DOMAIN sessions, r \in Roles, salt \in Salts : AdminChangeRole(s, "bob", r, salt)
    \/ AuditFileRemoved

SpecRoles == InitRoles /\ [][NextRoles]_vars

-----------------------------------------------------------------------------

(* The audit document near its cap: it starts with earlier entries. *)

EarlierEntries(n) ==
    [i \in 1..n |-> Entry("login", "admin", <<"User logged in successfully">>)]

InitAudit ==
    /\ now = 0
    /\ sessions = [s \in SessionIds |-> AnonymousSession]
    /\ usersFile = AbsentFile
    /\ recordsFile = AbsentFile
    /\ faults = {}
    /\ last = NoResponse
    /\ \E n \in (AuditCap - NearCap)..AuditCap :
          /\ auditFile = [kind |-> "list", data |-> EarlierEntries(n)]
          /\ auditHist = EarlierEntries(n)
    /\ work = [s \in SessionIds |-> IdleWork]

SubmitLoginTracked(s, username, password, salt) ==
    /\ ~sessions[s].logged_in
    /\ CommitTracked(s, SubmitLoginRun(sessions[s], usersFile, auditFile, recordsFile, faults,
                                       now, username, password, salt))

ClickLogoutTracked(s, salt) ==
    /\ sessions[s].logged_in
    /\ CommitTracked(s, ClickLogoutRun(sessions[s], usersFile, auditFile, recordsFile, faults,
                                       now, salt))

AdminChangeRoleTracked(s, selected_user, new_role, salt) ==
    /\ sessions[s].logged_in
    /\ CommitTracked(s, AdminChangeRoleRun(sessions[s], usersFile, auditFile, recordsFile,
                                           faults, now, selected_user, new_role, salt))

NextAudit ==
    \/ \E s \in DOMAIN sessions, i \in LoginInputs, salt \in Salts :
          SubmitLoginTracked(s, i[1], i[2], salt)
    \/ \E s \in DOMAIN sessions, salt \in Salts : ClickLogoutTracked(s, salt)
    \/ \E s \in DOMAIN sessions, u \in Usernames, r \in Roles, salt \in Salts :
          AdminChangeRoleTracked(s, u, r, salt)

SpecAudit == InitAudit /\ [][NextAudit]_vars

-----------------------------------------------------------------------------
(* Properties *)

\* the entries of the audit document, none when it is not a list
AuditEntries(afile) == IF afile.kind = "list" THEN afile.data ELSE <<>>

\* whether a map of users has one with role Admin
HasAdmin(users) == \E u \in DOMAIN users : users[u].role = "Admin"

\* C1: whenever the users document is a well-formed store, at least one of its
\* users has role Admin, and every load_users() returns a map with such a user,
\* whatever loads, creations, deletions, role changes and password changes
\* came before, over absent and malformed documents too.
C1_AdminAlwaysPresent ==
    /\ usersFile.kind = "dict" => HasAdmin(usersFile.data)
    /\ \A salt \in Salts :
          ~load_users(usersFile, faults, salt).raised =>
              HasAdmin(load_users(usersFile, faults, salt).users)

\* a session whose last activity is more than the timeout ago
Inactive(sess, t) ==
    sess.logged_in /\ t - sess.last_activity > SESSION_TIMEOUT_MINUTES

\* C2: the script run of a session that has been inactive for more than 30
\* minutes finds the timeout, leaves the session anonymous with every field
\* cleared and appends one logout entry; an anonymous session is refused by
\* require_auth, and only a successful login makes it logged in again.
C2_TimeoutClearsSession ==
    [][\A s \in DOMAIN sessions :
         /\ (last'.sid = s /\ Inactive(sessions[s], now)) =>
               /\ last'.shown.outcome = "expired"
               /\ sessions'[s] = AnonymousSession
               /\ last'.shown.logged = <<LogoutEntry(sessions[s].username)>>
               /\ auditFile' = [kind |-> "list",
                                data |-> Append(AuditEntries(auditFile),
                                                LogoutEntry(sessions[s].username))]
         /\ (last'.sid = s /\ ~sessions[s].logged_in /\ last'.shown.op = "require_auth") =>
               last'.shown.outcome = "please_login"
         /\ (~sessions[s].logged_in /\ sessions'[s].logged_in) =>
               (last'.sid = s /\ last'.shown.op = "login" /\ last'.shown.outcome = "welcome")
      ]_vars

\* a timed-out session was refused by require_auth and is anonymous
C2_Witness ==
    /\ last.shown.op = "require_auth"
    /\ last.shown.outcome = "expired"
    /\ Len(last.shown.logged) = 1
    /\ sessions[last.sid] = AnonymousSession

C4_LoginOutcome ==
    [][\A s \in DOMAIN sessions, i \in LoginInputs, salt \in Salts :
         (SubmitLogin(s, i[1], i[2], salt) /\ i[1] # "" /\ i[2] # "") =>
            IF authenticate(usersFile, faults, i[1], i[2], salt).result.success
            THEN /\ ~sessions[s].logged_in
                 /\ sessions'[s].logged_in
                 /\ sessions'[s].username = i[1]
                 /\ sessions'[s].login_time = now
                 /\ sessions'[s].last_activity = now
                 /\ last'.shown.logged = <<LoginEntry(i[1])>>
                 /\ auditFile' = [kind |-> "list",
                                  data |-> Append(AuditEntries(auditFile), LoginEntry(i[1]))]
            ELSE /\ sessions'[s] = sessions[s]
                 /\ ~sessions'[s].logged_in
                 /\ last'.shown.logged = <<FailedEntry(i[1])>>
                 /\ auditFile' = [kind |-> "list",
                                  data |-> Append(AuditEntries(auditFile), FailedEntry(i[1]))]
      ]_vars

\* a login succeeded at a time after the start
C4_Witness ==
    /\ last.shown.op = "login"
    /\ last.shown.outcome = "welcome"
    /\ now > 0
    /\ sessions[last.sid].login_time = now
    /\ sessions[last.sid].last_activity = now

\* C5: of two failing logins on the same state, one naming a user the store
\* does not hold and one naming a user it holds with a wrong password, the
\* results of authenticate() are equal, and so are the session, the outcome
\* shown and the users document left.
C5_FailuresIndistinguishable ==
    \A s \in DOMAIN sessions, i \in LoginInputs, j \in LoginInputs, salt \in Salts :
        (/\ ~sessions[s].logged_in
         /\ i[1] # "" /\ i[2] # "" /\ j[1] # "" /\ j[2] # ""
         /\ i[1] \notin DOMAIN load_users(usersFile, faults, salt).users
         /\ j[1] \in DOMAIN load_users(usersFile, faults, salt).users
         /\ ~authenticate(usersFile, faults, j[1], j[2], salt).result.success)
        => /\ authenticate(usersFile, faults, i[1], i[2], salt).result =
                 authenticate(usersFile, faults, j[1], j[2], salt).result
           /\ SubmitLoginRun(sessions[s], usersFile, auditFile, recordsFile, faults, now,
                             i[1], i[2], salt).sess =
                 SubmitLoginRun(sessions[s], usersFile, auditFile, recordsFile, faults, now,
                                j[1], j[2], salt).sess
           /\ SubmitLoginRun(sessions[s], usersFile, auditFile, recordsFile, faults, now,
                             i[1], i[2], salt).shown.outcome =
                 SubmitLoginRun(sessions[s], usersFile, auditFile, recordsFile, faults, now,
                                j[1], j[2], salt).shown.outcome
           /\ SubmitLoginRun(sessions[s], usersFile, auditFile, recordsFile, faults, now,
                             i[1], i[2], salt).ufile =
                 SubmitLoginRun(sessions[s], usersFile, auditFile, recordsFile, faults, now,
                                j[1], j[2], salt).ufile

\* a login naming a stored user failed on the password
C5_Witness ==
    /\ last.shown.op = "login"
    /\ last.shown.outcome = "invalid"
    /\ usersFile.kind = "dict"
    /\ last.shown.logged[1].username \in DOMAIN usersFile.data
    /\ "eve" \notin DOMAIN usersFile.data

\* C6: a login during which the users document cannot be read is not answered
\* as bad credentials are: its outcome is not the invalid-login outcome and it
\* writes no failed_login entry.
C6_UnreadableStoreReported ==
    (last.shown.op = "login" /\ last.shown.store_unreadable) =>
        /\ last.shown.outcome # "invalid"
        /\ \A i \in 1..Len(last.shown.logged) :
              last.shown.logged[i].event_type # "failed_login"

\* C7: the three Admin gates (require_auth("Admin"), the Admin Panel branch and
\* the Settings & Maintenance page) decide alike for every logged-in session.
C7_GatesAgree ==
    \A s \in DOMAIN sessions :
        sessions[s].logged_in =>
            /\ RequireAuthGate(sessions[s], "Admin") <=> AdminPanelGate(sessions[s])
            /\ AdminPanelGate(sessions[s]) <=> MaintenanceGate(sessions[s])

\* C8: the audit document never holds more than 1000 entries, and they are the
\* most recently written ones in the order they were written.
C8_AuditCapped ==
    auditFile.kind = "list" =>
        /\ Len(auditFile.data) <= AuditCap
        /\ auditFile.data = LastN(auditHist, AuditCap)

\* C9: while only the audit document is refused or damaged, a login, logout,
\* user creation, deletion or password change ends as it does otherwise, never
\* in an exception.
C9_AuditBestEffort ==
    (/\ last.sid # "none"
     /\ faults \subseteq {"audit_write"}
     /\ last.shown.op \in {"login", "logout", "add_user", "remove_user", "change_password"})
    => last.shown.outcome # "exception"

\* the audit event type that belongs to a mutating operation
EventOf(op) ==
    CASE op = "add_user" -> "user_created"
      [] op = "remove_user" -> "user_deleted"
      [] op = "change_password" -> "password_change"
      [] op = "set_role" -> "CHANGE_ROLE"
      [] op = "record_append" -> "record_created"
      [] OTHER -> "none"

EventsOfType(logged, event_type) ==
    {i \in 1..Len(logged) : logged[i].event_type = event_type}

\* C10: a mutating operation that succeeds writes exactly one audit entry of
\* its own type, and one that is rejected writes none of that type.
C10_OneEventPerMutation ==
    last.shown.op \in {"add_user", "remove_user", "change_password", "set_role",
                       "record_append"} =>
        Cardinality(EventsOfType(last.shown.logged, EventOf(last.shown.op))) =
            (IF last.shown.outcome = "ok" THEN 1 ELSE 0)

\* C11: in every state reached from the seeded store through create, delete,
\* set_role and change_password the default admin account is in the users
\* document with role Admin; a delete of it, by whoever asks, fails and leaves
\* the document as it is, and so does a Change Role of it to Member.
C11_DefaultAdminKept ==
    usersFile.kind = "dict" =>
        /\ DEFAULT_ADMIN[1] \in DOMAIN usersFile.data
        /\ usersFile.data[DEFAULT_ADMIN[1]].role = "Admin"
        /\ \A by \in Usernames, salt \in Salts :
              /\ ~delete_user(usersFile, auditFile, faults, DEFAULT_ADMIN[1], by, salt).ok
              /\ delete_user(usersFile, auditFile, faults, DEFAULT_ADMIN[1], by, salt).ufile
                    = usersFile
        /\ \A s \in DOMAIN sessions, salt \in Salts :
              /\ AdminRemoveUserRun(sessions[s], usersFile, auditFile, recordsFile, faults, now,
                                    DEFAULT_ADMIN[1], salt).ufile = usersFile
              /\ AdminChangeRoleRun(sessions[s], usersFile, auditFile, recordsFile, faults, now,
                                    DEFAULT_ADMIN[1], "Member", salt).ufile = usersFile
              /\ AdminChangeRoleRun(sessions[s], usersFile, auditFile, recordsFile, faults, now,
                                    DEFAULT_ADMIN[1], "Member", salt).shown.outcome # "ok"

\* an administrator asked for the default admin to become a Member, in a store
\* that create and change_password have already written to, and was refused
C11_Witness ==
    /\ last.shown.op = "set_role"
    /\ last.shown.outcome = "default_admin"
    /\ usersFile.kind = "dict"
    /\ "bob" \in DOMAIN usersFile.data
    /\ usersFile.data[DEFAULT_ADMIN[1]].password_hash.digest = Sha256("Passw0rd", "a1")

\* the users whose role is Admin
Admins(users) == {u \in DOMAIN users : users[u].role = "Admin"}

\* C12: whenever one user alone has role Admin, delete_user of that user, by
\* whoever asks, fails and leaves the users document as it is.
C12_SoleAdminKept ==
    (usersFile.kind = "dict" /\ faults = {}) =>
        \A u \in DOMAIN usersFile.data, by \in Usernames, salt \in Salts :
            Admins(usersFile.data) = {u} =>
                /\ ~delete_user(usersFile, auditFile, faults, u, by, salt).ok
                /\ delete_user(usersFile, auditFile, faults, u, by, salt).ufile = usersFile

\* C13: create_user with a username the store already holds fails and changes
\* nothing: the users document, with that user's password hash and role, and
\* the entries of the audit log are as they were, whether the call comes from
\* the Add User form or from elsewhere.
C13_DuplicateCreateNoMutation ==
    usersFile.kind = "dict" =>
        \A u \in DOMAIN usersFile.data, i \in AddUserInputs \cup WeakUserInputs, salt \in Salts :
            /\ ~create_user(usersFile, auditFile, faults, u, i[3], i[5], i[2], "admin", salt).ok
            /\ create_user(usersFile, auditFile, faults, u, i[3], i[5], i[2], "admin", salt).ufile
                  = usersFile
            /\ create_user(usersFile, auditFile, faults, u, i[3], i[5], i[2], "admin", salt).afile
                  = auditFile
            /\ \A s \in DOMAIN sessions :
                  /\ AdminAddUserRun(sessions[s], usersFile, auditFile, recordsFile, faults, now,
                                     u, i[2], i[3], i[4], i[5], salt).ufile = usersFile
                  /\ AuditEntries(AdminAddUserRun(sessions[s], usersFile, auditFile, recordsFile,
                                                  faults, now, u, i[2], i[3], i[4], i[5],
                                                  salt).afile)
                        = AuditEntries(auditFile)
                  /\ AdminAddUserRun(sessions[s], usersFile, auditFile, recordsFile, faults, now,
                                     u, i[2], i[3], i[4], i[5], salt).shown.outcome # "ok"

\* the Add User form was submitted for bob, whom the store already held with
\* another role, and was refused
C13_Witness ==
    /\ last.shown.op = "add_user"
    /\ last.shown.outcome = "Username already exists"
    /\ usersFile.kind = "dict"
    /\ "bob" \in DOMAIN usersFile.data
    /\ usersFile.data["bob"].role = "Admin"
    /\ usersFile.data["bob"].full_name = "Bob B"

\* C14: create_user, and the Add User form that calls it, refuse a blank
\* username and a password that validate_password_strength rejects (shorter
\* than the minimum, or without a letter): they do not succeed and the users of
\* the store are the ones it had.
C14_CreateRejectsBlankAndWeak ==
    (usersFile.kind = "dict" /\ faults = {}) =>
        \A i \in AddUserInputs \cup WeakUserInputs, salt \in Salts :
            (i[1] = "" \/ ~validate_password_strength(i[3])) =>
                /\ ~create_user(usersFile, auditFile, faults, i[1], i[3], i[5], i[2], "admin",
                                salt).ok
                /\ create_user(usersFile, auditFile, faults, i[1], i[3], i[5], i[2], "admin",
                               salt).ufile = usersFile
                /\ \A s \in DOMAIN sessions :
                      /\ AdminAddUserRun(sessions[s], usersFile, auditFile, recordsFile, faults,
                                         now, i[1], i[2], i[3], i[4], i[5], salt).shown.outcome
                            # "ok"
                      /\ AdminAddUserRun(sessions[s], usersFile, auditFile, recordsFile, faults,
                                         now, i[1], i[2], i[3], i[4], i[5], salt).ufile
                            = usersFile

\* what C15 asks of one Change Password request of user u in a store that
\* exists: verified says whether old verifies against the stored hash, and
\* event is the type of the audit event the form writes
ChangePasswordContract(u, old, new, verified, event, salt) ==
    IF last'.shown.outcome = "ok"
    THEN /\ verified
         /\ validate_password_strength(new)
         /\ authenticate(usersFile', faults, u, new, salt).result.success
         /\ old # new => ~authenticate(usersFile', faults, u, old, salt).result.success
         /\ usersFile'.data = [usersFile.data EXCEPT ![u].password_hash =
                                                        usersFile'.data[u].password_hash]
         /\ Cardinality(EventsOfType(last'.shown.logged, event)) = 1
    ELSE /\ usersFile' = usersFile
         /\ EventsOfType(last'.shown.logged, event) = {}
         /\ AuditEntries(auditFile') = AuditEntries(auditFile)

\* C15: a Change Password request replaces the stored hash only if the old
\* password verifies against the current hash and the new one passes
\* validate_password_strength; otherwise it fails, the users document is as it
\* was and no password-change event is written; after a success authenticate
\* accepts the new password and refuses the old one when the two differ.
C15_ChangePasswordChecked ==
    [][\A s \in DOMAIN sessions, i \in ChangePasswordInputs, salt \in Salts :
          /\ (SettingsChangePassword(s, i[1], i[2], i[3], salt) /\ usersFile.kind = "dict") =>
                ChangePasswordContract(sessions[s].username, i[1], i[2],
                    /\ sessions[s].username \in DOMAIN usersFile.data
                    /\ verify_password(i[1], password_field(usersFile.data[sessions[s].username])),
                    "password_change", salt)
          /\ (MaintenanceChangePassword(s, i[1], i[2], i[3], salt) /\ usersFile.kind = "dict") =>
                ChangePasswordContract(sessions[s].username, i[1], i[2],
                    /\ sessions[s].username \in DOMAIN usersFile.data
                    /\ security_verify_password(
                           i[1], usersFile.data[sessions[s].username].password_hash),
                    "CHANGE_PASSWORD", salt)
      ]_vars

\* a user has changed the password with the form of views/settings.py
C15_Witness ==
    /\ last.shown.op = "change_password"
    /\ last.shown.outcome = "ok"
    /\ usersFile.data[sessions[last.sid].username].password_hash = hash_password("Passw0rd", "a1")

\* C16: load_users seeds and saves a store of exactly one account, the default
\* Admin, when the users document is absent; whenever the document exists, a
\* load leaves it as it is and either returns the users it holds or reports an
\* error.  The same is asked of the load of utils/file_manager.py, which the
\* pages of a logged-in session call.
C16_LoadSeedsOnlyWhenAbsent ==
    \A salt \in Salts :
        /\ (usersFile.kind = "absent" /\ "users_write" \notin faults) =>
              /\ load_users(usersFile, faults, salt).users = default_users(salt)
              /\ load_users(usersFile, faults, salt).file.data = default_users(salt)
              /\ Cardinality(DOMAIN load_users(usersFile, faults, salt).users) = 1
        /\ usersFile.kind # "absent" =>
              /\ load_users(usersFile, faults, salt).file = usersFile
              /\ \/ load_users(usersFile, faults, salt).raised
                 \/ /\ usersFile.kind = "dict"
                    /\ load_users(usersFile, faults, salt).users = usersFile.data
        /\ (usersFile.kind = "absent" /\ faults = {} /\ \E s \in DOMAIN sessions : sessions[s].logged_in) =>
              Cardinality(DOMAIN ensure_files(usersFile, recordsFile, auditFile, faults,
                                              salt).ufile.data) = 1

\* a text of the edit form that is not empty and does not parse
Malformed(val) == val # Typed("") /\ ~CycleTime_parse(val).some

\* what a successful edit with inputs i leaves in the persisted record new,
\* which was old, when user edits it at time t
EditApplied(old, new, i, user, t) ==
    /\ new.date = i[1] /\ new.model = i[2] /\ new.station = i[3] /\ new.output = i[7]
    /\ new.r1 = TextOf(CycleTime_parse(i[4]))
    /\ new.r2 = TextOf(CycleTime_parse(i[5]))
    /\ new.r3 = TextOf(CycleTime_parse(i[6]))
    /\ new.average = TextOf(average_of(SelectSeq(<<CycleTime_parse(i[4]), CycleTime_parse(i[5]),
                                                   CycleTime_parse(i[6])>>,
                                                 LAMBDA c : c.some)))
    /\ new.modified_by = user /\ new.modified_at = t
    /\ new.created_by = old.created_by /\ new.created_at = old.created_at

\* C19: an edit whose r1, r2 or r3 text is non-empty and malformed is rejected
\* and changes nothing, no field of the record and nothing in the persisted
\* document; an edit whose three texts are valid updates the fields, recomputes
\* the average, sets modified_by and modified_at and writes one EDIT_RECORD
\* audit entry.
C19_EditAllOrNothing ==
    [][\A s \in DOMAIN sessions, idx \in Rows, i \in EditInputs, salt \in Salts :
          (/\ EditRecord(s, idx, i[1], i[2], i[3], i[4], i[5], i[6], i[7], salt)
           /\ idx \in 1..Len(recordsFile.data)) =>
              IF Malformed(i[4]) \/ Malformed(i[5]) \/ Malformed(i[6])
              THEN /\ recordsFile' = recordsFile
                   /\ last'.shown.outcome = "invalid"
                   /\ last'.shown.logged = <<>>
                   /\ AuditEntries(auditFile') = AuditEntries(auditFile)
              ELSE /\ last'.shown.outcome = "ok"
                   /\ Len(recordsFile'.data) = Len(recordsFile.data)
                   /\ EditApplied(recordsFile.data[idx], recordsFile'.data[idx], i,
                                  sessions[s].username, now)
                   /\ Cardinality(EventsOfType(last'.shown.logged, "EDIT_RECORD")) = 1
      ]_vars

\* an edit with r1 = "bad" has just been refused, in a document whose first
\* record an earlier edit had rewritten with the mean of its two readings
C19_Witness ==
    /\ last.shown.op = "edit_record"
    /\ last.shown.outcome = "invalid"
    /\ recordsFile.data[1].modified_by = "admin"
    /\ recordsFile.data[1].average
          = CycleTime_str(CycleTime(3 * 10 * Tenth, 7 * 10 * Tenth, 35 * Tenth))

\* the positions of the records of a document that are older than, or of, the cutoff day
AtOrBefore(data, cutoff_date) == {i \in 1..Len(data) : data[i].date <= cutoff_date}

\* after holds exactly the entries of before at the positions in keep, in the order they had
KeptInOrder(before, after, keep) ==
    \E f \in [1..Len(after) -> 1..Len(before)] :
        /\ \A j, k \in 1..Len(after) : j < k => f[j] < f[k]
        /\ {f[k] : k \in 1..Len(after)} = keep
        /\ \A k \in 1..Len(after) : after[k] = before[f[k]]

\* C20: Delete Old Records removes exactly the records whose date is the cutoff
\* day or earlier, keeps every later record in its original relative order, and
\* the number it reports in its DELETE_OLD_RECORDS audit entry is the number of
\* records removed.
C20_PurgeRemovesOld ==
    [][\A s \in DOMAIN sessions, d \in DaysOld, salt \in Salts :
          PurgeOldRecords(s, d, salt) =>
              /\ last'.shown.outcome = "ok"
              /\ KeptInOrder(recordsFile.data, recordsFile'.data,
                             (1..Len(recordsFile.data))
                                 \ AtOrBefore(recordsFile.data, Today(now) - d))
              /\ \A k \in 1..Len(recordsFile'.data) : recordsFile'.data[k].date > Today(now) - d
              /\ Len(last'.shown.logged) = 1
              /\ last'.shown.logged[1].event_type = "DELETE_OLD_RECORDS"
              /\ last'.shown.logged[1].description[2]
                    = NumStr(Cardinality(AtOrBefore(recordsFile.data, Today(now) - d)))
              /\ Len(recordsFile.data) - Len(recordsFile'.data)
                    = Cardinality(AtOrBefore(recordsFile.data, Today(now) - d))
      ]_vars

\* a purge has removed two of three records, one of them of the cutoff day,
\* and kept the newest
C20_Witness ==
    /\ last.shown.op = "purge"
    /\ last.shown.outcome = "ok"
    /\ last.shown.logged[1].description = <<"Deleted ", "2", " records">>
    /\ Len(recordsFile.data) = 1
    /\ recordsFile.data[1].date = 0
    /\ recordsFile.data[1].model = "M1"

\* the users and the records document as a session that loads now finds them
Loadable == <<usersFile, recordsFile>>

\* C17: a save is an atomic overwrite: whenever a session can load, during a
\* save of another session or after one, also one that failed partway, the
\* users and the records document are each a complete document, never an
\* empty or partial file.
C17_SaveAtomic ==
    \A s \in DOMAIN work :
        work[s].pc = "idle" => \A i \in 1..2 : Loadable[i].kind # "corrupt"

ReadingShown(item, key) ==
    IF key \in DOMAIN item /\ CycleTime_parse(item[key]).some
    THEN CycleTime_str(CycleTime_parse(item[key]))
    ELSE Typed("")

\* row is the record load_records() makes of item: every field of the entry,
\* each reading that parses, and no reading where the text does not parse
LoadedFrom(item, row) ==
    /\ row.date = item.date /\ row.model = item.model /\ row.station = item.station
    /\ row.created_by = item.created_by /\ row.created_at = item.created_at
    /\ \A key \in {"r1", "r2", "r3"} : row[key] = ReadingShown(item, key)
    /\ row.output = (IF "output" \in DOMAIN item THEN item.output ELSE "")
    /\ row.modified_by = (IF "modified_by" \in DOMAIN item THEN item.modified_by ELSE item.created_by)
    /\ row.modified_at = (IF "modified_at" \in DOMAIN item THEN item.modified_at ELSE item.created_at)

\* C21: the load of the records document yields one record for each persisted
\* entry, in order; an entry whose r1, r2 or r3 text does not parse is loaded
\* with that reading alone absent, its other fields and every other entry are
\* loaded intact, and the load as a whole does not fail.  Observed in the table
\* View/Edit displays with no filter set.
C21_LenientLoad ==
    [][\A s \in DOMAIN sessions, salt \in Salts :
          (/\ last'.shown.op = "view_records"
           /\ recordsFile.kind = "list"
           /\ recordsFile.data # <<>>
           /\ ShowRecords(s, NoFilters, salt)) =>
              /\ last'.shown.outcome = "listed"
              /\ recordsFile' = recordsFile
              /\ Len(last'.view.rows) = Len(recordsFile.data)
              /\ \A k \in 1..Len(recordsFile.data) :
                    LoadedFrom(recordsFile.data[k], last'.view.rows[k])
      ]_vars

\* the table of a document whose first entry holds r2 = "bad": three rows, the
\* first one with its r1 and without r2
C21_Witness ==
    /\ last.shown.op = "view_records"
    /\ last.shown.outcome = "listed"
    /\ recordsFile.kind = "list"
    /\ Len(recordsFile.data) = 3
    /\ recordsFile.data[1].r2 = Typed("bad")
    /\ Len(last.view.rows) = 3
    /\ last.view.rows[1].r2 = Typed("")
    /\ last.view.rows[1].r1 = CycleTime_str(CycleTime(50 * Tenth, 120 * Tenth, 40 * Tenth))
    /\ last.view.rows[2].r1 = last.view.rows[1].r1

\* how many of the readings a, b, c are present
Present(a, b, c) == Cardinality({k \in 1..3 : <<a, b, c>>[k].some})

\* the text of the component-wise mean of the readings present among a, b and
\* c (an absent reading holds zeros), "" when none is present
MeanText(a, b, c) ==
    IF Present(a, b, c) = 0 THEN Typed("")
    ELSE CycleTime_str(CycleTime((a.pre + b.pre + c.pre) \div Present(a, b, c),
                                 (a.machine + b.machine + c.machine) \div Present(a, b, c),
                                 (a.post + b.post + c.post) \div Present(a, b, c)))

\* the sums of the readings divide by their number: the mean is exact
ExactMean(a, b, c) ==
    Present(a, b, c) > 0 =>
        /\ (a.pre + b.pre + c.pre) % Present(a, b, c) = 0
        /\ (a.machine + b.machine + c.machine) % Present(a, b, c) = 0
        /\ (a.post + b.post + c.post) % Present(a, b, c) = 0

\* C24: average(r1, r2, r3) is the component-wise arithmetic mean of exactly
\* the readings that are present, dividing by their number (1 to 3), and is
\* absent if and only if all three readings are absent.  Observed where the
\* program prints it: in every row of the table View/Edit displays, and in the
\* entry a successful edit saves, whose readings are the three texts typed.
C24_AverageOfPresent ==
    [][/\ last'.shown.op = "view_records" =>
                 \A k \in 1..Len(last'.view.rows) :
                     /\ ExactMean(CycleTime_parse(last'.view.rows[k].r1),
                                  CycleTime_parse(last'.view.rows[k].r2),
                                  CycleTime_parse(last'.view.rows[k].r3))
                     /\ last'.view.rows[k].average =
                           MeanText(CycleTime_parse(last'.view.rows[k].r1),
                                    CycleTime_parse(last'.view.rows[k].r2),
                                    CycleTime_parse(last'.view.rows[k].r3))
                     /\ last'.view.rows[k].average = Typed("") <=>
                           \A key \in {"r1", "r2", "r3"} : last'.view.rows[k][key] = Typed("")
       /\ (last'.shown.op = "edit_record" /\ last'.shown.outcome = "ok") =>
             \A s \in DOMAIN sessions, fl \in ViewFilters, sel \in Options, i \in ViewEditInputs, salt \in Salts :
               EditListed(s, fl, sel, i, salt) =>
                 /\ ExactMean(CycleTime_parse(i[4]), CycleTime_parse(i[5]), CycleTime_parse(i[6]))
                 /\ recordsFile'.data[rec_idx(fm_load_records(recordsFile, faults), fl, sel)].average
                       = MeanText(CycleTime_parse(i[4]), CycleTime_parse(i[5]),
                                  CycleTime_parse(i[6]))
      ]_vars

\* a table whose second row holds two readings, 5(12)4 and 1(2)3, no third,
\* and their mean 3(7)3.5, and whose third row holds one reading and the same
\* as its mean
C24_Witness ==
    /\ last.shown.op = "view_records"
    /\ last.view.kind = "table"
    /\ Len(last.view.rows) = 3
    /\ last.view.rows[2].r1 = CycleTime_str(CycleTime(50 * Tenth, 120 * Tenth, 40 * Tenth))
    /\ last.view.rows[2].r2 = CycleTime_str(CycleTime(10 * Tenth, 20 * Tenth, 30 * Tenth))
    /\ last.view.rows[2].r3 = Typed("")
    /\ last.view.rows[2].average = CycleTime_str(CycleTime(30 * Tenth, 70 * Tenth, 35 * Tenth))
    /\ last.view.rows[3].r2 = Typed("")
    /\ last.view.rows[3].average = last.view.rows[3].r1

\* C25: uph(avg, output) is 3600 / (pre + machine + post) * output when the
\* total is above 0, and 0, with no error, when the total is 0, for every
\* output count.  Observed in every row of the results table of UPH Analytics;
\* times are held in 1/300 of a second, a UPH as the fraction num / den.
C25_UphDefined ==
    last.view.kind = "uph" =>
        /\ last.shown.outcome = "results"
        /\ \A k \in 1..Len(last.view.rows) :
              /\ last.view.rows[k].output >= 1
              /\ last.view.rows[k].UPH.den > 0
              /\ IF last.view.rows[k].avg.pre + last.view.rows[k].avg.machine
                       + last.view.rows[k].avg.post > 0
                 THEN /\ last.view.rows[k].UPH.num % (3600 * 300) = 0
                      /\ (last.view.rows[k].UPH.num \div (3600 * 300))
                            * (last.view.rows[k].avg.pre + last.view.rows[k].avg.machine
                                  + last.view.rows[k].avg.post)
                         = last.view.rows[k].output * last.view.rows[k].UPH.den
                 ELSE last.view.rows[k].UPH.num = 0

\* the results of model M1 with 3 typed for every station: station S1 with
\* readings of zero and a UPH of 0, station S9 with an average printed as
\* 2.2(5.0)2.3, a total of 9.5 s, and a UPH of 3600 / 9.5 * 3
C25_Witness ==
    /\ last.shown.op = "analytics"
    /\ last.view.kind = "uph"
    /\ Len(last.view.rows) = 2
    /\ last.view.rows[1].station = "S1"
    /\ last.view.rows[1].avg = CycleTime(0, 0, 0)
    /\ last.view.rows[1].UPH.num = 0
    /\ last.view.rows[2].station = "S9"
    /\ last.view.rows[2].output = 3
    /\ last.view.rows[2].avg = CycleTime(22 * Tenth, 50 * Tenth, 23 * Tenth)
    /\ last.view.rows[2].UPH.num * 95 = 3600 * 3 * 10 * last.view.rows[2].UPH.den

\* the document once a load has read it and a save has written it back
Resaved(rfile) == fm_save_records(rfile, {}, fm_load_records(rfile, {})).file

\* the entries of a document from which the k-th is left out
Without(data, k) == [j \in 1..(Len(data) - 1) |-> IF j < k THEN data[j] ELSE data[j + 1]]

C23_RoundTrip ==
    [][(last'.shown.op = "edit_record" /\ last'.shown.outcome = "ok") =>
          \A s \in DOMAIN sessions, fl \in ViewFilters, sel \in Options, i \in ViewEditInputs, salt \in Salts :
             EditListed(s, fl, sel, i, salt) =>
                /\ fm_load_records(recordsFile', {})[rec_idx(fm_load_records(recordsFile, {}), fl, sel)].r1
                      = CycleTime_parse(i[4])
                /\ fm_load_records(recordsFile', {})[rec_idx(fm_load_records(recordsFile, {}), fl, sel)].r2
                      = CycleTime_parse(i[5])
                /\ fm_load_records(recordsFile', {})[rec_idx(fm_load_records(recordsFile, {}), fl, sel)].r3
                      = CycleTime_parse(i[6])
                /\ CycleTime_parse(recordsFile'.data[rec_idx(fm_load_records(recordsFile, {}), fl, sel)].average)
                      = CycleRecord_average([r1 |-> CycleTime_parse(i[4]),
                                             r2 |-> CycleTime_parse(i[5]),
                                             r3 |-> CycleTime_parse(i[6])])
      ]_vars

\* C30: loading a records document that save wrote and saving it again with
\* no edit reproduces the document, the average of every entry included.
C30_ResaveIdentity ==
    (last.shown.op \in {"edit_record", "delete_record"} /\ last.shown.outcome = "ok") =>
        Resaved(recordsFile) = recordsFile


\* the hash functions the program applies to a password it stores in users.json
HashesOf(p) ==
    {hash_password(p, salt) : salt \in Salts} \cup {security_hash_password(p, salt) : salt \in Salts}

\* C22: every verify function the program applies to a hash stored in the
\* users document accepts the password that hash was made from and refuses
\* every other one, whichever of the program's hash functions made it.  Here:
\* the Change Password form of Settings & Maintenance and the login form
\* answer "incorrect password" for a typed password exactly when the stored
\* hash of that user was not made from it.
C22_HashVerifyPairs ==
    [][/\ (last'.shown.op = "maintenance_password" /\ usersFile.kind = "dict") =>
            \A s \in DOMAIN sessions, i \in ChangePasswordInputs, salt \in Salts :
                (/\ MaintenanceChangePassword(s, i[1], i[2], i[3], salt)
                 /\ sessions[s].username \in DOMAIN usersFile.data
                 /\ last'.shown.outcome \in {"Incorrect current password", "mismatch", "weak",
                                            "save_failed", "ok"})
                => ((last'.shown.outcome = "Incorrect current password")
                      <=> (usersFile.data[sessions[s].username].password_hash \notin HashesOf(i[1])))
       /\ (last'.shown.op = "change_password" /\ usersFile.kind = "dict") =>
            \A s \in DOMAIN sessions, i \in ChangePasswordInputs, salt \in Salts :
                (/\ SettingsChangePassword(s, i[1], i[2], i[3], salt)
                 /\ sessions[s].username \in DOMAIN usersFile.data
                 /\ last'.shown.outcome = "Incorrect current password")
                => (usersFile.data[sessions[s].username].password_hash \notin HashesOf(i[1]))
      ]_vars


\* C27: in every state every session is either anonymous with username, role,
\* full_name, login_time and last_activity all cleared, or authenticated with
\* username, role, login_time and last_activity all set; and a session with
\* those five fields cleared is anonymous.
C27_SessionShape ==
    \A s \in DOMAIN sessions :
        /\ ~sessions[s].logged_in <=>
               /\ sessions[s].username = NoneS
               /\ sessions[s].role = NoneS
               /\ sessions[s].full_name = NoneS
               /\ sessions[s].login_time = NoneT
               /\ sessions[s].last_activity = NoneT
        /\ ~sessions[s].logged_in => sessions[s] = AnonymousSession
        /\ sessions[s].logged_in =>
               /\ sessions[s].username # NoneS
               /\ sessions[s].role # NoneS
               /\ sessions[s].login_time # NoneT
               /\ sessions[s].last_activity # NoneT

\* a session that logged in and is still authenticated after a later request
\* refreshed its activity
C27_Witness ==
    \E s \in DOMAIN sessions :
        /\ sessions[s].logged_in
        /\ sessions[s].last_activity > sessions[s].login_time
        /\ last.sid = s /\ last.shown.op \notin {"login", "none"}


\* the role the users document holds for a user, NoneS when it holds none
StoredRole(username) ==
    IF usersFile.kind = "dict" /\ username \in DOMAIN usersFile.data
    THEN usersFile.data[username].role
    ELSE NoneS

\* C28: the role of an authenticated session is the snapshot taken at login.
\* A request of another session, a change of role or a removal of this
\* session's user included, leaves this session's fields as they were; and a
\* role check of a session that is logged in and has not timed out answers
\* from the session's own role, keeps username and role, and does not depend
\* on what the users document holds by then.
C28_RoleSnapshot ==
    [][/\ \A o \in DOMAIN sessions : last'.sid # o => sessions'[o] = sessions[o]
       /\ last'.shown.op = "require_auth" =>
            \A s \in DOMAIN sessions, r \in {NoneS, "Admin"} :
                (/\ RequireAuth(s, r)
                 /\ sessions[s].logged_in
                 /\ ~Expired(sessions[s], now)
                 /\ last'.shown.outcome # "exception")
                => /\ sessions'[s].username = sessions[s].username
                   /\ sessions'[s].role = sessions[s].role
                   /\ sessions'[s].logged_in
                   /\ (last'.shown.outcome = "granted")
                         <=> (r = NoneS \/ Lower(sessions[s].role) = Lower(r))
      ]_vars

\* a session that logged in as an Admin passes the Admin check after another
\* session has made its user a Member or has removed the user
C28_Witness ==
    \E s \in DOMAIN sessions :
        /\ last.sid = s
        /\ last.shown.op = "require_auth"
        /\ last.shown.outcome = "granted"
        /\ sessions[s].username = "bob"
        /\ sessions[s].role = "Admin"
        /\ StoredRole("bob") # "Admin"


\* C29: of two create calls for the same new username that two sessions
\* interleave, at most one returns success: no create of a username ends in
\* success over a users document in which the other session's create,
\* completed since this one loaded, has already stored that username.
C29_OneCreateWins ==
    ~(/\ last.shown.op = "add_user"
      /\ last.shown.outcome = "ok"
      /\ last.over.kind = "dict"
      /\ usersFile.kind = "dict"
      /\ \E u \in DOMAIN last.over.data \cap DOMAIN usersFile.data :
            \E k \in 1..Len(last.shown.logged) :
                /\ last.shown.logged[k].event_type = "user_created"
                /\ last.shown.logged[k].description[2] = u)

====
